---- MODULE Spec2Model ----
(***************************************************************************)
(* Diagnostico_Hardware: the test orchestrator of gui/main_window.py, the  *)
(* four peripheral test modules of tests/ and the report generator of      *)
(* core/report_generator.py.                                               *)
(*                                                                         *)
(* Spec       the main window's test run: run requests, the test queue,    *)
(*            the test modules' windows and worker threads, the Tk         *)
(*            callbacks posted with root.after, and the recording of the   *)
(*            results in the report generator.                             *)
(* SpecModule one run of a single test, every device, file and entry of    *)
(*            the test module failing or not.                              *)
(* SpecReport the report generator and MainWindow._generate_report, with   *)
(*            results recorded in any order.                               *)
(* SpecCollector  the hardware collector of core/hardware_info.py, its     *)
(*            queries meeting every outcome.                               *)
(* SpecCollection the hardware tab: startup collection, refresh requests   *)
(*            and report generation.                                       *)
(* SpecDevices    the camera handle and the microphone stream of the       *)
(*            webcam and audio tests.                                      *)
(* SpecUsb    one USB measurement: sizes, speeds, hashes and the type.     *)
(* SpecInstances  the singleton guard of main.py.                          *)
(* SpecKeyboard   the keys of one keyboard test, physical and virtual.     *)
(* SpecRefresh    the collection threads of the hardware tab, statement by *)
(*            statement, and the updates they post to the UI thread.       *)
(*                                                                         *)
(* One action is one Tk event handler (run on the UI thread) or one step   *)
(* of a background thread.  A messagebox is shown and dismissed inside the *)
(* handler that opens it; last_dialog keeps its title.                     *)
(***************************************************************************)
EXTENDS Naturals, Sequences, FiniteSets, TLC

\* ------------------------------------------------------------------ bounds

\* Runs of tests that come to their end in one behaviour.
MaxRuns == 1

\* Recording worker threads of one audio test alive at the same time.
MaxRecThreads == 2

\* Results recorded in the report generator in one behaviour of SpecReport.
MaxRecords == 3

\* Seconds that pass in one behaviour of SpecReport.
MaxClock == 1

\* Report files written in one behaviour of SpecReport.
MaxReports == 1

\* Calls of _generate_report_content counted between two operations on the
\* generator.
MaxCalls == 2

\* Collection threads started in one behaviour.
MaxCollections == 2

\* Categories whose queries meet an outcome other than the value asked for, in
\* one behaviour.
MaxFaults == 2

\* Processes of the application started in one behaviour.
MaxInstances == 4

\* The highest speed, in MB/s, the type of a device is asked for.
MaxSpeed == 2600

\* ------------------------------------------------------- program constants

\* len(self.key_buttons): the buttons of the ABNT2 layout.
TotalKeys == 88

\* _update_counter enables 'Concluir Teste' from this many pressed keys.
KeyThreshold == 70

\* self.selected_tests: the test ids in the order of the dictionary.
TestIds == <<"keyboard", "usb", "webcam", "audio">>

TestIdSet == {TestIds[i] : i \in 1..Len(TestIds)}

\* The name each runner passes to _handle_test_completion.
TestName(kind) ==
    CASE kind = "keyboard" -> "keyboard"
      [] kind = "usb" -> "usb"
      [] kind = "webcam" -> "Webcam"
      [] kind = "audio" -> "Áudio"
      [] OTHER -> kind

\* Identities of the test-module objects: every dispatch creates one.
ObjIds == 1..(MaxRuns * Len(TestIds))

VARIABLES
    tests_running,      \* MainWindow.tests_running
    run_tests_button,   \* state of run_tests_button: "normal" | "disabled"
    run_all_button,     \* state of run_all_button
    test_queue,         \* MainWindow.test_queue, a sequence of test ids
    objs,               \* the test-module objects, by identity
    nobj,               \* number of objects created
    pending,            \* callbacks posted with root.after, not yet run
    test_results,       \* ReportGenerator.test_results: name -> object whose result dict it holds
    test_details,       \* ReportGenerator.test_details: name -> formatted text
    notified,           \* number of 'Testes Concluidos' notifications shown
    run_no,             \* number of run requests accepted
    last_dialog,        \* title of the last messagebox shown
    identification,     \* ReportGenerator.identification
    hardware_info,      \* ReportGenerator.hardware_info
    output_directory,   \* ReportGenerator.output_directory
    files,              \* report files on disk: path -> content
    clock,              \* datetime.now(), in seconds
    last_content,       \* text returned by _generate_report_content since the last
                        \* operation on the generator, and the number of such calls
    hardware_collection_started,  \* MainWindow.hardware_collection_started
    hardware_collection_running,  \* MainWindow.hardware_collection_running
    hw_pc,              \* the collection thread in get_all_info: 0 when there is none,
                        \* else the number of the category it collects next
    info,               \* the dict get_all_info fills
    hw_raised,          \* get_all_info of the collection thread raised
    hw_pending,         \* hardware callbacks posted with root.after, not yet run
    hw_widgets,         \* what the hardware tab shows
    hw_runs,            \* number of collection threads started
    hw_faults,          \* the categories whose queries met a fault
    cam,                \* a webcam test seen at its camera: window, execute(), the
                        \* capture thread and the capture handle
    mic,                \* an audio test seen at its microphone: window, execute(),
                        \* the recording thread and the input stream
    usb_run,            \* a USB measurement seen at its files and speeds: the locals
                        \* of _run_advanced_test and what it leaves in self.result
    instances,          \* the processes started on the machine, by number
    port_owner,         \* the process bound to 127.0.0.1:12345, 0 when there is none
    kbd,                \* a keyboard test seen at its keys: pressed_keys, the number
                        \* in counter_var, and the slots the operator has pressed
    tab                 \* the hardware tab seen at its threads: the flag, each
                        \* collection thread, the posted updates in the order of
                        \* their posting, and the collection the fields show

reportVars == <<identification, hardware_info, output_directory, files, clock,
                last_content>>

\* The hardware tab and its collection thread.
collectVars == <<hardware_collection_started, hardware_collection_running, hw_pc,
                 info, hw_raised, hw_pending, hw_widgets, hw_runs, hw_faults>>

\* The device handles of a webcam test and of an audio test.
deviceVars == <<cam, mic>>

\* One run of USBTest._run_advanced_test.
usbVars == <<usb_run>>

\* The processes of the application and the port of the singleton guard.
instanceVars == <<instances, port_owner>>

\* The keys of one keyboard test.
kbdVars == <<kbd>>

\* The collection threads of the hardware tab.
tabVars == <<tab>>

auxVars == <<collectVars, deviceVars, usbVars, instanceVars, kbdVars, tabVars>>

\* What the actions of the hardware tab leave alone, beside mainVars.
collectRest == <<deviceVars, usbVars, instanceVars, kbdVars, tabVars>>

\* What the actions on the device handles leave alone, beside mainVars.
deviceRest == <<collectVars, usbVars, instanceVars, kbdVars, tabVars>>

\* What the steps of the USB measurement leave alone, beside mainVars.
usbRest == <<collectVars, deviceVars, instanceVars, kbdVars, tabVars>>

\* What the steps of the processes leave alone, beside mainVars.
instanceRest == <<collectVars, deviceVars, usbVars, kbdVars, tabVars>>

\* What the key presses of the keyboard test leave alone, beside mainVars.
kbdRest == <<collectVars, deviceVars, usbVars, instanceVars, tabVars>>

\* What the steps of the collection threads leave alone, beside mainVars.
tabRest == <<collectVars, deviceVars, usbVars, instanceVars, kbdVars>>

\* The orchestrator, the test modules and the report generator.
mainVars == <<tests_running, run_tests_button, run_all_button, test_queue, objs,
              nobj, pending, test_results, test_details, notified, run_no,
              last_dialog, identification, hardware_info, output_directory, files,
              clock, last_content>>

vars == <<mainVars, auxVars>>

\* ------------------------------------------------------- python dictionary

\* A dict that moves a key to the end when it is set again.
DictSetLast(d, k, v) ==
    Append(SelectSeq(d, LAMBDA e : e.name # k), [name |-> k, value |-> v])

\* d[k] = v on a dict kept as the sequence of its items in insertion order:
\* a key already present keeps its place.
DictSet(d, k, v) ==
    IF \E i \in 1..Len(d) : d[i].name = k
    THEN [i \in 1..Len(d) |-> IF d[i].name = k THEN [name |-> k, value |-> v] ELSE d[i]]
    ELSE Append(d, [name |-> k, value |-> v])

\* ------------------------------------------------------ test-module objects

\* self.result of a freshly constructed module.
NewResult == [success |-> FALSE, message |-> "", details |-> "{}", error |-> "None"]

NoObj ==
    [kind |-> "none", init |-> "ok", window |-> "none", runner |-> "none",
     workers |-> 0, result |-> NewResult, complete_button |-> FALSE,
     start_button |-> FALSE, pressed |-> 0, measure |-> "none",
     confirm_buttons |-> FALSE, is_recording |-> FALSE, play_button |-> FALSE,
     is_playing |-> FALSE, escaped |-> FALSE]

\* A module whose window is open and whose runner thread waits in execute().
NewObj(kind) ==
    [NoObj EXCEPT !.kind = kind, !.window = "open", !.runner = "executing",
                  !.start_button = TRUE]

\* The module's procedure is still active: its window is open, its runner has not
\* yet handed the result over, or one of its worker threads is alive.
Active(o) ==
    /\ o.kind # "none"
    /\ \/ o.window = "open"
       \/ o.runner = "executing"
       \/ o.workers > 0
       \/ o.is_playing

\* KeyboardTest.get_formatted_result
KeyboardFormatted(r) ==
    IF r.success
    THEN "Teste de Teclado: SUCESSO / " \o r.details
    ELSE IF r.error # "None"
         THEN "Teste de Teclado: FALHA / Erro: " \o r.error
         ELSE "Teste de Teclado: FALHA / Motivo: " \o r.message

\* USBTest.get_formatted_result
UsbFormatted(r) ==
    IF r.success
    THEN "Teste de USB concluido com sucesso / " \o r.details
    ELSE "Teste de USB falhou / Motivo: " \o r.message \o " / Erro: " \o r.error

\* WebcamTest.get_formatted_result
WebcamFormatted(r) ==
    IF r.success
    THEN "Teste de Webcam: SUCESSO / Mensagem: " \o r.message
    ELSE IF r.error # "None"
         THEN "Teste de Webcam: FALHA / Erro: " \o r.error
         ELSE "Teste de Webcam: FALHA / Motivo: " \o r.message

\* AudioTest.get_formatted_result
AudioFormatted(r) ==
    IF r.success
    THEN "Teste de Audio: SUCESSO / Mensagem: " \o r.message
    ELSE IF r.error # "None"
         THEN "Teste de Audio: FALHA / Erro: " \o r.error
         ELSE "Teste de Audio: FALHA / Motivo: " \o r.message

FormattedResult(o) ==
    CASE o.kind = "keyboard" -> KeyboardFormatted(o.result)
      [] o.kind = "usb" -> UsbFormatted(o.result)
      [] o.kind = "webcam" -> WebcamFormatted(o.result)
      [] OTHER -> AudioFormatted(o.result)

\* ------------------------------------------------------------ orchestrator

\* The state the UI-thread handlers of the run read and write, as one record.
St ==
    [tests_running |-> tests_running, run_tests_button |-> run_tests_button,
     run_all_button |-> run_all_button, test_queue |-> test_queue, objs |-> objs,
     nobj |-> nobj, pending |-> pending, test_results |-> test_results,
     test_details |-> test_details, notified |-> notified, run_no |-> run_no,
     last_dialog |-> last_dialog]

Commit(st) ==
    /\ tests_running' = st.tests_running
    /\ run_tests_button' = st.run_tests_button
    /\ run_all_button' = st.run_all_button
    /\ test_queue' = st.test_queue
    /\ objs' = st.objs
    /\ nobj' = st.nobj
    /\ pending' = st.pending
    /\ test_results' = st.test_results
    /\ test_details' = st.test_details
    /\ notified' = st.notified
    /\ run_no' = st.run_no
    /\ last_dialog' = st.last_dialog

\* What the platform answers while a module is created: wmi.WMI() in
\* USBTest.__init__ and tempfile.mkdtemp() in initialize().
Envs == [wmi_ok : BOOLEAN, tmp_ok : BOOLEAN]

\* root.after(100, self._execute_next_test)
ExecuteNextCb == [cb |-> "execute_next", obj |-> 0]

\* root.after(0, lambda: self._handle_test_completion(name, get_result(), ...))
CompletionCb(o) == [cb |-> "completion", obj |-> o]

\* A module object comes to exist.
Alloc(st, obj) == [st EXCEPT !.nobj = @ + 1, !.objs[st.nobj + 1] = obj]

\* initialize() returned False: showerror, then the next test after 100 ms.
InitFailed(st, kind, error) ==
    [Alloc(st, [NoObj EXCEPT !.kind = kind, !.init = "failed", !.result.error = error])
        EXCEPT !.last_dialog = "Erro", !.pending = @ \cup {ExecuteNextCb}]

\* KeyboardTest() ; initialize() sets is_running and returns True; the runner
\* thread enters execute(), which opens the window and waits for it.
RunKeyboardTest(st) == Alloc(st, [NewObj("keyboard") EXCEPT !.start_button = FALSE])

\* USBTest(root, callback) opens the window in its constructor, unless wmi.WMI()
\* raises.  USBTest defines neither initialize() nor execute(): the call
\* usb_test.initialize() raises AttributeError, which leaves the handler; neither
\* branch of the if runs.
RunUsbTest(st, env) ==
    IF env.wmi_ok
    THEN Alloc(st, [NewObj("usb") EXCEPT !.runner = "none", !.init = "no_initialize"])
    ELSE Alloc(st, [NoObj EXCEPT !.kind = "usb", !.init = "failed"])

RunWebcamTest(st, env) ==
    IF env.tmp_ok
    THEN Alloc(st, NewObj("webcam"))
    ELSE InitFailed(st, "webcam", "exception")

RunAudioTest(st, env) ==
    IF env.tmp_ok
    THEN Alloc(st, NewObj("audio"))
    ELSE InitFailed(st, "audio", "exception")

\* The queue is empty: back to idle, and the operator is told.
AllTestsCompleted(st) ==
    [st EXCEPT !.tests_running = FALSE, !.run_tests_button = "normal",
               !.run_all_button = "normal", !.notified = @ + 1,
               !.last_dialog = "Testes Concluidos"]

\* Dispatch of the id taken from the queue.
DispatchTest(st, test_id, env) ==
    CASE test_id = "keyboard" -> RunKeyboardTest(st)
      [] test_id = "usb" -> RunUsbTest(st, env)
      [] test_id = "webcam" -> RunWebcamTest(st, env)
      [] test_id = "audio" -> RunAudioTest(st, env)
      [] OTHER -> [st EXCEPT !.pending = @ \cup {ExecuteNextCb}]

\* _execute_next_test that reads the head of the queue and leaves it there.
ExecuteNextTestKeeping(st, env) ==
    IF st.test_queue = <<>>
    THEN AllTestsCompleted(st)
    ELSE DispatchTest(st, Head(st.test_queue), env)

ExecuteNextTest(st, env) ==
    IF st.test_queue = <<>>
    THEN AllTestsCompleted(st)
    ELSE DispatchTest([st EXCEPT !.test_queue = Tail(@)], Head(st.test_queue), env)

\* ReportGenerator.add_test_result(test_name, result, formatted_result): the dict
\* result is stored by reference, the formatted text by value.
AddTestResult(st, name, o) ==
    [st EXCEPT !.test_results = DictSet(@, name, o),
               !.test_details = DictSet(@, name, FormattedResult(st.objs[o]))]

\* _handle_test_completion without its call of add_test_result.
HandleTestCompletionUnrecorded(st, o, env) == ExecuteNextTest(st, env)

HandleTestCompletion(st, o, env) ==
    ExecuteNextTest(AddTestResult(st, TestName(st.objs[o].kind), o), env)

\* ---------------------------------------------------- identification fields

\* What the operator may have typed into an entry: a sequence of characters.
IdNames == {<<>>, <<" ">>, <<" ", "a">>}

RECURSIVE LStrip(_)
LStrip(s) == IF s # <<>> /\ Head(s) = " " THEN LStrip(Tail(s)) ELSE s

RECURSIVE RStrip(_)
RStrip(s) ==
    IF s # <<>> /\ s[Len(s)] = " " THEN RStrip(SubSeq(s, 1, Len(s) - 1)) ELSE s

\* str.strip()
Strip(s) == RStrip(LStrip(s))

ValidateIdentificationFields(tech, wb) == Strip(tech) # <<>> /\ Strip(wb) # <<>>

\* ------------------------------------------------------------ run requests

\* The ids of a selection in the order of self.selected_tests.
RECURSIVE QueueOf(_, _)
QueueOf(ids, selected) ==
    IF ids = <<>> THEN <<>>
    ELSE IF Head(ids) \in selected
         THEN <<Head(ids)>> \o QueueOf(Tail(ids), selected)
         ELSE QueueOf(Tail(ids), selected)

\* The operator requests no further run once MaxRuns runs have come to their end.
MayRun == notified < MaxRuns

\* A start of a run that leaves the two run buttons enabled.
StartRunButtonsOn(st, queue) ==
    [st EXCEPT !.tests_running = TRUE, !.test_queue = queue, !.run_no = @ + 1]

\* tests_running = True, both buttons disabled, the queue emptied and refilled.
StartRun(st, queue) ==
    [st EXCEPT !.tests_running = TRUE, !.run_tests_button = "disabled",
               !.run_all_button = "disabled", !.test_queue = queue,
               !.run_no = @ + 1]

Reject(title) ==
    /\ last_dialog' = title
    /\ UNCHANGED <<tests_running, run_tests_button, run_all_button, test_queue, objs,
                   nobj, pending, test_results, test_details, notified, run_no>>

\* _run_selected_tests without its check of tests_running.
RunSelectedTestsUnchecked(tech, wb, selected) ==
    /\ IF ~ValidateIdentificationFields(tech, wb)
       THEN Reject("Campo Obrigatorio")
       ELSE IF selected = {}
            THEN Reject("Nenhum Teste Selecionado")
            ELSE /\ MayRun
                 /\ \E env \in Envs :
                       Commit(ExecuteNextTest(
                           StartRun(St, QueueOf(TestIds, selected)), env))
    /\ UNCHANGED <<reportVars, auxVars>>

RunSelectedTests(tech, wb, selected) ==
    /\ IF ~ValidateIdentificationFields(tech, wb)
       THEN Reject("Campo Obrigatorio")
       ELSE IF selected = {}
            THEN Reject("Nenhum Teste Selecionado")
            ELSE IF tests_running
                 THEN Reject("Testes em Execucao")
                 ELSE /\ MayRun
                      /\ \E env \in Envs :
                            Commit(ExecuteNextTest(
                                StartRun(St, QueueOf(TestIds, selected)), env))
    /\ UNCHANGED <<reportVars, auxVars>>

RunAllTests(tech, wb) ==
    /\ IF ~ValidateIdentificationFields(tech, wb)
       THEN Reject("Campo Obrigatorio")
       ELSE IF tests_running
            THEN Reject("Testes em Execucao")
            ELSE /\ MayRun
                 /\ \E env \in Envs :
                       Commit(ExecuteNextTest(StartRun(St, TestIds), env))
    /\ UNCHANGED <<reportVars, auxVars>>

\* A posted root.after(100, self._execute_next_test) runs.
ExecuteNextTestCallback ==
    /\ ExecuteNextCb \in pending
    /\ \E env \in Envs :
          Commit(ExecuteNextTest([St EXCEPT !.pending = @ \ {ExecuteNextCb}], env))
    /\ UNCHANGED <<reportVars, auxVars>>

\* Once the completion callback has run nothing refers to the module object any
\* more, only to its result dict: the set of pressed keys is gone with it.
Released(obj) == [obj EXCEPT !.pressed = 0]

\* A posted completion callback of a runner thread runs.
TestCompletionCallback(o) ==
    /\ CompletionCb(o) \in pending
    /\ \E env \in Envs :
          Commit(HandleTestCompletion(
              [St EXCEPT !.pending = @ \ {CompletionCb(o)},
                         !.objs[o] = Released(@)], o, env))
    /\ UNCHANGED <<reportVars, auxVars>>

\* ------------------------------------------------------------ test modules

\* A step that changes one module object and nothing else.
SetObj(o, new) ==
    /\ objs' = [objs EXCEPT ![o] = new]
    /\ UNCHANGED <<tests_running, run_tests_button, run_all_button, test_queue, nobj,
                   pending, test_results, test_details, notified, run_no, last_dialog>>
    /\ UNCHANGED <<reportVars, auxVars>>

IsOpen(o, kind) == objs[o].kind = kind /\ objs[o].window = "open"

\* self.window.destroy(): the widgets go with the window.
Destroyed(obj) ==
    [obj EXCEPT !.window = "destroyed", !.complete_button = FALSE,
                !.start_button = FALSE, !.confirm_buttons = FALSE,
                !.play_button = FALSE]

\* _skip_test / _on_close of the keyboard, webcam and audio tests, after the
\* operator answered yes.
Abandon(obj, message) ==
    Destroyed([obj EXCEPT !.result.success = FALSE, !.result.message = message])

\* ---- keyboard

\* len(self.pressed_keys)
PressedCount(obj) == obj.pressed

\* KeyboardTest._update_counter
UpdateCounter(obj) == [obj EXCEPT !.complete_button = (PressedCount(obj) >= KeyThreshold)]

\* if len(self.pressed_keys) == len(self.key_buttons): enable the button
EnableWhenAll(obj) ==
    IF PressedCount(obj) = TotalKeys THEN [obj EXCEPT !.complete_button = TRUE] ELSE obj

\* self.pressed_keys.add(...) for a key of the layout: "single" is a key with one
\* button, "dual" a modifier (Shift, Ctrl, Alt, Win), whose two buttons are both
\* added; adding a key already in the set changes nothing.
AddKey(obj, key, fresh) ==
    IF ~fresh THEN obj
    ELSE IF key = "dual" /\ obj.pressed + 2 <= TotalKeys THEN [obj EXCEPT !.pressed = @ + 2]
    ELSE IF key = "single" /\ obj.pressed < TotalKeys THEN [obj EXCEPT !.pressed = @ + 1]
    ELSE obj

\* KeyboardTest._on_virtual_key_press: a click on a button of the layout.
KeyboardVirtualKeyPress(o, key, fresh) ==
    /\ IsOpen(o, "keyboard")
    /\ IF key = "dual"
       THEN SetObj(o, EnableWhenAll(UpdateCounter(AddKey(objs[o], key, fresh))))
       ELSE IF fresh
            THEN SetObj(o, EnableWhenAll(UpdateCounter(AddKey(objs[o], key, fresh))))
            ELSE SetObj(o, objs[o])

\* KeyboardTest._on_key_press, on the listener thread, with the callbacks it
\* posts (button style, _update_counter, enabling) run at once.
KeyboardOnKeyPress(o, key, fresh) ==
    /\ IsOpen(o, "keyboard")
    /\ objs[o].runner = "executing"
    /\ SetObj(o, EnableWhenAll(UpdateCounter(AddKey(objs[o], key, fresh))))

\* self.result['details'] = {'total_keys': ..., 'pressed_keys': ...}; of the
\* numbers the text keeps whether the count reached the threshold.
KeyboardDetails(obj) ==
    IF PressedCount(obj) >= KeyThreshold
    THEN "pressed_keys >= 70 of 88"
    ELSE "pressed_keys < 70 of 88"

\* KeyboardTest._complete_test; the callback attribute it reads after destroying
\* the window does not exist, so the handler ends there with AttributeError.
KeyboardCompleted(obj) ==
    Destroyed([obj EXCEPT !.result.success = TRUE,
                          !.result.message = "Teste concluido com sucesso",
                          !.result.details = KeyboardDetails(obj)])

KeyboardCompleteTest(o) ==
    /\ IsOpen(o, "keyboard")
    /\ objs[o].complete_button
    /\ SetObj(o, KeyboardCompleted(objs[o]))

KeyboardSkipTest(o) ==
    /\ IsOpen(o, "keyboard")
    /\ SetObj(o, Abandon(objs[o], "Teste pulado pelo usuario"))

KeyboardOnClose(o) ==
    /\ IsOpen(o, "keyboard")
    /\ SetObj(o, Abandon(objs[o], "Teste interrompido pelo usuario"))

\* ---- the runner threads of the keyboard, webcam and audio tests

\* execute() returns once the window is destroyed; the runner thread then posts
\* the completion callback to the UI thread.
RunnerReturns(o) ==
    /\ objs[o].runner = "executing"
    /\ objs[o].window = "destroyed"
    /\ objs' = [objs EXCEPT ![o].runner = "returned"]
    /\ pending' = pending \cup {CompletionCb(o)}
    /\ UNCHANGED <<tests_running, run_tests_button, run_all_button, test_queue, nobj,
                   test_results, test_details, notified, run_no, last_dialog>>
    /\ UNCHANGED <<reportVars, auxVars>>

\* ---- usb

\* A step of the USB window that only shows a warning.
UsbWarning(title) ==
    /\ last_dialog' = title
    /\ UNCHANGED <<tests_running, run_tests_button, run_all_button, test_queue, objs,
                   nobj, pending, test_results, test_details, notified, run_no>>
    /\ UNCHANGED <<reportVars, auxVars>>

\* A _start_test without the check of the free space.
UsbStartTestUnchecked(o, selection, size_ok, space, query_ok) ==
    /\ IsOpen(o, "usb")
    /\ objs[o].start_button
    /\ IF objs[o].workers > 0
       THEN SetObj(o, objs[o])
       ELSE IF ~selection
            THEN UsbWarning("Aviso")
            ELSE IF ~size_ok
                 THEN UsbWarning("Erro")
                 ELSE SetObj(o, [objs[o] EXCEPT !.start_button = FALSE,
                                                !.workers = 1])

\* USBTest._start_test.  selection: a device is selected in the list; size_ok:
\* the size entry holds a positive integer; space: the free bytes of the device
\* against 2 x the test file size ("enough" or "short"); query_ok:
\* GetDiskFreeSpaceEx returns them (it raises otherwise, and the bare except
\* clause lets the test go on).
UsbStartTest(o, selection, size_ok, space, query_ok) ==
    /\ IsOpen(o, "usb")
    /\ objs[o].start_button
    /\ IF objs[o].workers > 0
       THEN SetObj(o, objs[o])
       ELSE IF ~selection
            THEN UsbWarning("Aviso")
            ELSE IF ~size_ok
                 THEN UsbWarning("Erro")
                 ELSE IF query_ok /\ space = "short"
                      THEN UsbWarning("Espaco Insuficiente")
                      ELSE SetObj(o, [objs[o] EXCEPT !.start_button = FALSE,
                                                     !.workers = 1])

\* What _run_advanced_test leaves in self.result.
UsbMeasured(result, outcome) ==
    CASE outcome = "all_ok" ->
            [result EXCEPT !.success = TRUE, !.message = "Teste avancado concluido",
                           !.details = "integrity: True"]
      [] outcome = "corrupt" ->
            [result EXCEPT !.success = FALSE, !.message = "Teste avancado concluido",
                           !.details = "integrity: False"]
      [] OTHER ->
            [result EXCEPT !.success = FALSE, !.message = "Erro no teste avancado",
                           !.error = "exception"]

\* USBTest._run_advanced_test, on its worker thread, from start to end, and its
\* finally clause: is_running = False and the 'Concluir' button enabled.  With
\* the window gone complete_button.config raises TclError in the finally clause,
\* outside every try block: the exception leaves the thread (escaped).
UsbRunAdvancedTest(o, outcome) ==
    /\ objs[o].kind = "usb"
    /\ objs[o].workers > 0
    /\ SetObj(o, [objs[o] EXCEPT
          !.result = UsbMeasured(@, outcome),
          !.measure = outcome,
          !.workers = 0,
          !.complete_button = (objs[o].window = "open"),
          !.escaped = (objs[o].window # "open")])

\* USBTest._skip_test: the window is destroyed and the callback is not called.
UsbSkipTest(o) ==
    /\ IsOpen(o, "usb")
    /\ SetObj(o, Abandon(objs[o], "Teste pulado pelo usuario"))

\* The result after USBTest._complete_test.
UsbCompleted(obj) == Destroyed([obj EXCEPT !.result.success = TRUE])

\* USBTest._complete_test, with the callback it calls.
UsbCompleteTest(o) ==
    /\ IsOpen(o, "usb")
    /\ objs[o].complete_button
    /\ \E env \in Envs :
          Commit(HandleTestCompletion(
              [St EXCEPT !.objs[o] = UsbCompleted(objs[o])], o, env))
    /\ UNCHANGED <<reportVars, auxVars>>

\* USBTest._on_close, with the callback it calls.
UsbOnClose(o) ==
    /\ IsOpen(o, "usb")
    /\ \E env \in Envs :
          Commit(HandleTestCompletion(
              [St EXCEPT !.objs[o] = Abandon(objs[o], "Teste interrompido pelo usuario")],
              o, env))
    /\ UNCHANGED <<reportVars, auxVars>>

\* ---- webcam

\* WebcamTest._start_webcam
WebcamStartWebcam(o) ==
    /\ IsOpen(o, "webcam")
    /\ objs[o].start_button
    /\ SetObj(o, [objs[o] EXCEPT !.start_button = FALSE, !.workers = 1])

\* WebcamTest._capture_webcam, on its thread, from start to end, with the
\* callbacks it posts run at once: after a capture the confirmation buttons are
\* created, after a failure the error is stored and the start button enabled
\* again.  With the window gone the posted callbacks fail and change nothing.
WebcamCaptureWebcam(o, ok) ==
    /\ objs[o].kind = "webcam"
    /\ objs[o].workers > 0
    /\ IF ok
       THEN SetObj(o, [objs[o] EXCEPT !.workers = 0,
                                      !.confirm_buttons = (objs[o].window = "open")])
       ELSE SetObj(o, [objs[o] EXCEPT !.workers = 0,
                                      !.result.error = "exception",
                                      !.start_button = (objs[o].window = "open")])

\* WebcamTest._confirm_webcam
WebcamConfirmed(obj, success) ==
    [obj EXCEPT !.result.success = success,
                !.result.message = IF success THEN "Webcam funcionou corretamente"
                                   ELSE "Webcam nao funcionou corretamente",
                !.complete_button = TRUE]

WebcamConfirmWebcam(o, success) ==
    /\ IsOpen(o, "webcam")
    /\ objs[o].confirm_buttons
    /\ SetObj(o, WebcamConfirmed(objs[o], success))

WebcamCompleteTest(o) ==
    /\ IsOpen(o, "webcam")
    /\ objs[o].complete_button
    /\ SetObj(o, Destroyed(objs[o]))

WebcamSkipTest(o) ==
    /\ IsOpen(o, "webcam")
    /\ SetObj(o, Abandon(objs[o], "Teste pulado pelo usuario"))

WebcamOnClose(o) ==
    /\ IsOpen(o, "webcam")
    /\ SetObj(o, Abandon(objs[o], "Teste interrompido pelo usuario"))

\* ---- audio

\* AudioTest._start_recording
AudioStartRecording(obj) ==
    [obj EXCEPT !.play_button = FALSE, !.is_recording = TRUE, !.workers = @ + 1]

\* A _stop_recording that enables the yes and no buttons with the play button.
AudioStopRecordingConfirmable(obj, frames, save_ok) ==
    IF obj.window # "open" \/ ~frames
    THEN [obj EXCEPT !.is_recording = FALSE]
    ELSE IF save_ok
         THEN [obj EXCEPT !.is_recording = FALSE, !.play_button = TRUE,
                          !.confirm_buttons = TRUE]
         ELSE [obj EXCEPT !.is_recording = FALSE, !.result.error = "exception"]

\* AudioTest._stop_recording.  frames: the stream callback has appended to
\* recorded_frames since the recording started; save_ok: writing the WAV file
\* works.  With the window gone the first widget call raises, right after
\* is_recording = False.
AudioStopRecording(obj, frames, save_ok) ==
    IF obj.window # "open" \/ ~frames
    THEN [obj EXCEPT !.is_recording = FALSE]
    ELSE IF save_ok
         THEN [obj EXCEPT !.is_recording = FALSE, !.play_button = TRUE]
         ELSE [obj EXCEPT !.is_recording = FALSE, !.result.error = "exception"]

\* AudioTest._toggle_recording
AudioToggleRecording(o, frames, save_ok) ==
    /\ IsOpen(o, "audio")
    /\ IF ~objs[o].is_recording
       THEN /\ objs[o].workers < MaxRecThreads
            /\ SetObj(o, AudioStartRecording(objs[o]))
       ELSE SetObj(o, AudioStopRecording(objs[o], frames, save_ok))

\* A thread in AudioTest._record_audio comes to its end: it saw is_recording
\* False in its loop ("stopped"); the ten seconds are over and the _stop_recording
\* it posts runs ("timeout"); or the stream raised ("error").
AudioRecordAudio(o, how, frames, save_ok) ==
    /\ objs[o].kind = "audio"
    /\ objs[o].workers > 0
    /\ CASE how = "stopped" ->
               /\ ~objs[o].is_recording
               /\ SetObj(o, [objs[o] EXCEPT !.workers = @ - 1])
         [] how = "timeout" ->
               /\ objs[o].is_recording
               /\ SetObj(o, AudioStopRecording([objs[o] EXCEPT !.workers = @ - 1],
                                               frames, save_ok))
         [] OTHER ->
               SetObj(o, [objs[o] EXCEPT !.workers = @ - 1, !.is_recording = FALSE,
                                         !.result.error = "exception"])

\* AudioTest._play_audio; the button is enabled only once the file is written.
AudioPlayAudio(o) ==
    /\ IsOpen(o, "audio")
    /\ objs[o].play_button
    /\ IF objs[o].is_playing
       THEN SetObj(o, objs[o])
       ELSE SetObj(o, [objs[o] EXCEPT !.is_playing = TRUE, !.play_button = FALSE])

\* AudioTest._play_audio_thread, from start to end, with the callbacks it posts
\* run at once (they fail when the window is gone).
AudioPlayAudioThread(o, ok) ==
    /\ objs[o].kind = "audio"
    /\ objs[o].is_playing
    /\ IF ok
       THEN SetObj(o, [objs[o] EXCEPT !.is_playing = FALSE,
                                      !.play_button = (objs[o].window = "open"),
                                      !.confirm_buttons = (objs[o].window = "open")])
       ELSE SetObj(o, [objs[o] EXCEPT !.is_playing = FALSE,
                                      !.play_button = (objs[o].window = "open"),
                                      !.result.error = "exception"])

\* AudioTest._confirm_audio
AudioConfirmed(obj, success) ==
    [obj EXCEPT !.result.success = success,
                !.result.message = IF success THEN "Audio funcionou corretamente"
                                   ELSE "Audio nao funcionou corretamente",
                !.complete_button = TRUE]

AudioConfirmAudio(o, success) ==
    /\ IsOpen(o, "audio")
    /\ objs[o].confirm_buttons
    /\ SetObj(o, AudioConfirmed(objs[o], success))

AudioCompleteTest(o) ==
    /\ IsOpen(o, "audio")
    /\ objs[o].complete_button
    /\ SetObj(o, Destroyed(objs[o]))

AudioSkipTest(o) ==
    /\ IsOpen(o, "audio")
    /\ SetObj(o, Abandon(objs[o], "Teste pulado pelo usuario"))

AudioOnClose(o) ==
    /\ IsOpen(o, "audio")
    /\ SetObj(o, Abandon(objs[o], "Teste interrompido pelo usuario"))

\* -------------------------------------------------------- report generator

\* No call of _generate_report_content since the last operation on the generator.
NoContent == [text |-> <<>>, calls |-> 0]

\* "=" * 80 and "-" * 80
RuleEq == "================================================================================"

RuleDash == "--------------------------------------------------------------------------------"

\* The text of an entry: its characters joined.
RECURSIVE JoinChars(_)
JoinChars(chars) == IF chars = <<>> THEN "" ELSE Head(chars) \o JoinChars(Tail(chars))

\* Two digits of a number below 100.
TwoDigits(n) == IF n < 10 THEN "0" \o ToString(n) ELSE ToString(n)

\* f"{(num / den) * 100:.2f}": the percentage rounded to the nearest hundredth.
FormatRate(num, den) ==
    LET hundredths == (20000 * num + den) \div (2 * den)
    IN  ToString(hundredths \div 100) \o "." \o TwoDigits(hundredths % 100)

\* A count that takes every result for a success.
SuccessfulTestsAll(results, objects) == Len(results)

\* sum(1 for result in self.test_results.values() if result.get('success', False));
\* the result dicts are read through the references the generator holds.
RECURSIVE SuccessfulTests(_, _)
SuccessfulTests(results, objects) ==
    IF results = <<>> THEN 0
    ELSE (IF objects[Head(results).value].result.success THEN 1 ELSE 0)
         + SuccessfulTests(Tail(results), objects)

\* The identification block of the report.
IdentificationLines(ident) ==
    IF ident = <<>>
    THEN <<"Informacoes de identificacao nao disponiveis">>
    ELSE <<"Data e Hora: " \o ToString(ident.date_time),
           "Nome do Tecnico: " \o JoinChars(ident.technician_name),
           "ID da Bancada: " \o JoinChars(ident.workbench_id)>>

\* The hardware block: the categories in their fixed order; disks and GPUs are
\* left out when their lists are empty.
HardwareLines(hw) ==
    IF hw = <<>>
    THEN <<"Informacoes de hardware nao disponiveis", "">>
    ELSE <<"Placa-Mae:", "", "Processador:", "", "Memoria RAM:", "">>
         \o (IF hw.disks THEN <<"Discos:", "">> ELSE <<>>)
         \o (IF hw.gpu THEN <<"Placas de Video:", "">> ELSE <<>>)
         \o <<"Display:", "", "TPM:", "", "Bluetooth:", "", "Wi-Fi:", "">>

\* for test_name, test_detail in self.test_details.items(): the detail, a blank line
RECURSIVE DetailLines(_)
DetailLines(details) ==
    IF details = <<>> THEN <<>>
    ELSE <<Head(details).value, "">> \o DetailLines(Tail(details))

\* The summary block.
SummaryLines(results, objects) ==
    IF results # <<>>
    THEN <<"Total de Testes: " \o ToString(Len(results)),
           "Testes com Sucesso: " \o ToString(SuccessfulTests(results, objects)),
           "Testes com Falha: "
               \o ToString(Len(results) - SuccessfulTests(results, objects)),
           "Taxa de Sucesso: "
               \o FormatRate(SuccessfulTests(results, objects), Len(results)) \o "%">>
    ELSE <<"Nenhum teste foi executado">>

\* ReportGenerator._generate_report_content, as the lines it joins.
ReportContentOf(ident, hw, results, details, objects) ==
    <<RuleEq, "RELATORIO DE DIAGNOSTICO DE HARDWARE", RuleEq, "">>
    \o <<RuleDash, "INFORMACOES DE IDENTIFICACAO", RuleDash>>
    \o IdentificationLines(ident) \o <<"">>
    \o <<RuleDash, "INFORMACOES DO SISTEMA", RuleDash,
         "Sistema Operacional: platform", "Arquitetura: machine",
         "Nome do Computador: node", "">>
    \o <<RuleDash, "INFORMACOES DE HARDWARE", RuleDash>>
    \o HardwareLines(hw)
    \o <<RuleDash, "RESULTADOS DOS TESTES", RuleDash>>
    \o (IF details # <<>> THEN DetailLines(details)
        ELSE <<"Nenhum teste foi executado", "">>)
    \o <<RuleDash, "RESUMO DOS TESTES", RuleDash>>
    \o SummaryLines(results, objects)
    \o <<"", RuleEq, "FIM DO RELATORIO", RuleEq>>

\* A report that also prints the time of its making.
ReportContentStamped ==
    ReportContentOf(identification, hardware_info, test_results, test_details, objs)
    \o <<"Gerado em: " \o ToString(clock)>>

ReportContent ==
    ReportContentOf(identification, hardware_info, test_results, test_details, objs)

\* report_dir / relatorio_{timestamp}.txt, the timestamp to the second
ReportPath(dir, now) ==
    (IF dir = "None" \/ dir = "" THEN "~/Diagnostico_Hardware_Reports" ELSE dir)
    \o "/relatorio_" \o ToString(now) \o ".txt"

\* What the hardware collector and the widgets hand to the report.
HardwareSnapshots == {[disks |-> TRUE, gpu |-> FALSE]}

\* What report_save_path may hold.
SavePaths == {"", "D"}

\* A test module that has come to its end: completed with success, or skipped.
FinishedModule(kind, how) ==
    LET obj == [NewObj(kind) EXCEPT !.runner = "returned"]
    IN  IF how = "skipped" THEN Abandon(obj, "Teste pulado pelo usuario")
        ELSE CASE kind = "keyboard" -> KeyboardCompleted([obj EXCEPT !.pressed = TotalKeys])
               [] kind = "usb" ->
                     UsbCompleted([obj EXCEPT !.result = UsbMeasured(@, "all_ok"),
                                              !.measure = "all_ok"])
               [] kind = "webcam" -> Destroyed(WebcamConfirmed(obj, TRUE))
               [] OTHER -> Destroyed(AudioConfirmed(obj, TRUE))

\* A module comes to its end and _handle_test_completion records its result
\* (seen from the report generator: add_test_result).
RecordResult(kind, how) ==
    /\ nobj < MaxRecords
    /\ LET st == AddTestResult(Alloc(St, Released(FinishedModule(kind, how))),
                               TestName(kind), nobj + 1)
       IN  /\ objs' = st.objs
           /\ nobj' = st.nobj
           /\ test_results' = st.test_results
           /\ test_details' = st.test_details
    /\ last_content' = NoContent
    /\ UNCHANGED <<tests_running, run_tests_button, run_all_button, test_queue,
                   pending, notified, run_no, last_dialog, identification,
                   hardware_info, output_directory, files, clock>>
    /\ UNCHANGED auxVars

\* A call of ReportGenerator._generate_report_content.
GenerateReportContent ==
    /\ last_content.calls < MaxCalls
    /\ last_content' = [text |-> ReportContent, calls |-> last_content.calls + 1]
    /\ UNCHANGED <<tests_running, run_tests_button, run_all_button, test_queue, objs,
                   nobj, pending, test_results, test_details, notified, run_no,
                   last_dialog, identification, hardware_info, output_directory,
                   files, clock>>
    /\ UNCHANGED auxVars

\* The showwarning of _generate_report and its return.
RefuseReport ==
    /\ last_dialog' = "Campo Obrigatorio"
    /\ UNCHANGED <<identification, hardware_info, output_directory, files,
                   last_content>>

\* _generate_report without its two checks of the identification entries.
GenerateReportUnvalidated(tech, wb, dir, hw, io_ok) ==
    /\ Len(files) < MaxReports
    /\ identification' = [date_time |-> clock, technician_name |-> tech,
                          workbench_id |-> wb]
    /\ hardware_info' = hw
    /\ output_directory' = dir
    /\ files' = DictSet(files, ReportPath(dir, clock),
                    ReportContentOf(identification', hw, test_results, test_details,
                                    objs))
    /\ last_content' = NoContent
    /\ last_dialog' = "Relatorio Gerado"
    /\ UNCHANGED <<tests_running, run_tests_button, run_all_button, test_queue, objs,
                   nobj, pending, test_results, test_details, notified, run_no, clock>>
    /\ UNCHANGED auxVars

\* MainWindow._generate_report.  tech, wb: the identification entries; dir: the
\* save path; hw: the hardware snapshot; io_ok: the report file can be written.
GenerateReport(tech, wb, dir, hw, io_ok) ==
    /\ IF Strip(tech) = <<>>
       THEN RefuseReport
       ELSE IF Strip(wb) = <<>>
            THEN RefuseReport
            ELSE /\ Len(files) < MaxReports
                 /\ identification' = [date_time |-> clock, technician_name |-> tech,
                                       workbench_id |-> wb]
                 /\ hardware_info' = hw
                 /\ output_directory' = dir
                 /\ IF io_ok
                    THEN /\ files' = DictSet(files, ReportPath(dir, clock),
                                         ReportContentOf(identification', hw,
                                             test_results, test_details, objs))
                         /\ last_content' =
                               [text |-> ReportContentOf(identification', hw,
                                             test_results, test_details, objs),
                                calls |-> 1]
                         /\ last_dialog' = "Relatorio Gerado"
                    ELSE /\ files' = files
                         /\ last_content' = NoContent
                         /\ last_dialog' = "Erro ao Gerar Relatorio"
    /\ UNCHANGED <<tests_running, run_tests_button, run_all_button, test_queue, objs,
                   nobj, pending, test_results, test_details, notified, run_no, clock>>
    /\ UNCHANGED auxVars

\* A second passes.
Tick ==
    /\ clock < MaxClock
    /\ clock' = clock + 1
    /\ UNCHANGED <<tests_running, run_tests_button, run_all_button, test_queue, objs,
                   nobj, pending, test_results, test_details, notified, run_no,
                   last_dialog, identification, hardware_info, output_directory,
                   files, last_content>>
    /\ UNCHANGED auxVars

\* ------------------------------------------------------- hardware collector

\* The placeholder of a field that could not be read.
NotAvailable == "Não disponível"

\* HardwareInfo.is_windows: the application starts on Windows only.
IsWindows == TRUE

\* What a query of the collector may meet: output with the values asked for, no
\* output, a JSON document whose fields are null or missing, an exit code other
\* than zero, a timeout, output that cannot be parsed.
Outcomes == {"value", "empty", "null", "missing", "nonzero", "timeout", "unparsable"}

\* HardwareInfo._run_command: stdout stripped when the exit code is 0, "" on any
\* other exit code, on a timeout and on any error.
RunCommand(outcome) ==
    IF outcome \in {"empty", "nonzero", "timeout"} THEN "" ELSE outcome

\* _run_powershell of a command that ends with ConvertTo-Json.
RunPowershellJson(outcome) == RunCommand(outcome)

\* _run_powershell of a command that prints one property: a property that is
\* null or missing prints nothing.
RunPowershellText(outcome) ==
    IF outcome \in {"null", "missing"} THEN "" ELSE RunCommand(outcome)

\* json.loads(output) raises.
JsonRaises(output) == output = "unparsable"

\* data.get(field, default) of the document json.loads returned.
JsonGet(output, default) ==
    CASE output = "value" -> "v"
      [] output = "null" -> "None"
      [] OTHER -> default

\* The text of a non-empty output.
TextOf(output) == IF output = "value" THEN "v" ELSE "??"

\* A function that returned value, or raised with value in its local result.
Returned(value) == [raised |-> FALSE, value |-> value]

Raised(value) == [raised |-> TRUE, value |-> value]

\* A handler that lets the exception of its body pass.
Uncaught(r) == r

\* except Exception as e: print(...), followed by return result.
Caught(r) == Returned(r.value)

\* get_motherboard_info.  o1: the Win32_BaseBoard query, o2: the BIOS query.
MotherboardBody(o1, o2) ==
    LET result == [manufacturer |-> NotAvailable, model |-> NotAvailable,
                   serial_number |-> NotAvailable]
        output == RunPowershellJson(o1)
        serial_output == RunPowershellText(o2)
    IN  IF output # "" /\ JsonRaises(output) THEN Raised(result)
        ELSE Returned(
               [manufacturer |-> IF output # "" THEN JsonGet(output, NotAvailable)
                                 ELSE NotAvailable,
                model |-> IF output # "" THEN JsonGet(output, NotAvailable)
                          ELSE NotAvailable,
                serial_number |-> IF serial_output # "" THEN TextOf(serial_output)
                                  ELSE NotAvailable])

GetMotherboardInfo(o1, o2) ==
    IF ~IsWindows
    THEN Returned([manufacturer |-> NotAvailable, model |-> NotAvailable,
                   serial_number |-> NotAvailable])
    ELSE Caught(MotherboardBody(o1, o2))

\* The brand and model get_cpu_info takes from the full name of the processor.
CpuFromName(full_name) ==
    IF full_name = "Intel v" THEN [brand |-> "Intel", model |-> "v"]
    ELSE [brand |-> NotAvailable, model |-> full_name]

\* get_cpu_info.  o1: cpuinfo.get_cpu_info() and its brand_raw, o2: wmic cpu.
GetCpuInfo(o1, o2) ==
    LET result == [brand |-> NotAvailable, model |-> NotAvailable]
        wmic == RunCommand(o2)
    IN  CASE o1 = "value" -> Returned(CpuFromName("Intel v"))
          [] o1 \in {"empty", "missing"} -> Returned(CpuFromName(""))
          [] OTHER ->
               IF ~IsWindows THEN Returned(result)
               ELSE IF wmic = "value" THEN Caught(Returned(CpuFromName("Intel v")))
               ELSE Caught(Returned(result))

\* get_ram_info.  o: the Win32_PhysicalMemory query.
RamBody(o) ==
    LET result == [total |-> NotAvailable, slots_used |-> NotAvailable,
                   modules |-> <<>>]
        output == RunPowershellJson(o)
    IN  IF output # "" /\ JsonRaises(output) THEN Raised(result)
        ELSE IF output = "value"
        THEN Returned([total |-> "8.00 GB", slots_used |-> "1",
                       modules |-> <<[banklabel |-> "v", size |-> "8.00 GB",
                                      speed |-> "v MHz"]>>])
        ELSE Returned(result)

GetRamInfo(o) ==
    IF ~IsWindows
    THEN Returned([total |-> NotAvailable, slots_used |-> NotAvailable,
                   modules |-> <<>>])
    ELSE Caught(RamBody(o))

\* get_disk_info.  o: wmic diskdrive; a row whose size is no number is left out.
GetDiskInfo(o) ==
    IF IsWindows /\ RunCommand(o) = "value"
    THEN Caught(Returned(<<[model |-> "v", size |-> "238.47 GB", type |-> "v"]>>))
    ELSE Caught(Returned(<<>>))

\* get_gpu_info.  o: wmic path Win32_VideoController.
GetGpuInfo(o) ==
    IF IsWindows /\ RunCommand(o) = "value"
    THEN Caught(Returned(<<[model |-> "v"]>>))
    ELSE Caught(Returned(<<>>))

\* get_display_info.  o: screeninfo.get_monitors().
DisplayBody(o) ==
    CASE o = "value" -> Returned([resolution |-> "1920x1080"])
      [] o \in {"empty", "null", "missing"} -> Returned([resolution |-> NotAvailable])
      [] OTHER -> Raised([resolution |-> NotAvailable])

GetDisplayInfo(o) == Caught(DisplayBody(o))

\* get_tpm_info.  o: Get-Tpm; "null" and "missing" are a TPM that is present and
\* whose version and manufacturer are null or missing.
TpmBody(o) ==
    LET result == [version |-> NotAvailable, status |-> NotAvailable,
                   manufacturer |-> NotAvailable]
        output == RunPowershellJson(o)
    IN  IF output = "" THEN Returned(result)
        ELSE IF JsonRaises(output) THEN Raised(result)
        ELSE Returned([version |-> JsonGet(output, NotAvailable),
                       status |-> "Presente",
                       manufacturer |-> JsonGet(output, NotAvailable)])

GetTpmInfo(o) ==
    IF ~IsWindows
    THEN Returned([version |-> NotAvailable, status |-> NotAvailable,
                   manufacturer |-> NotAvailable])
    ELSE Caught(TpmBody(o))

\* str.capitalize() of the status the service query printed.
Capitalize(text) == IF text = "v" THEN "V" ELSE text

\* get_bluetooth_info.  o1: the status of bthserv ("running" when it has the
\* value asked for), o2: the manufacturer of the first Bluetooth device.
GetBluetoothInfo(o1, o2) ==
    LET status_output == RunPowershellText(o1)
        device_output == RunPowershellText(o2)
    IN  IF ~IsWindows
        THEN Returned([device_name |-> NotAvailable, device_status |-> NotAvailable])
        ELSE Caught(Returned(
               [device_name |-> IF device_output # "" THEN TextOf(device_output)
                                ELSE NotAvailable,
                device_status |-> IF status_output = "value" THEN "Ativo"
                                  ELSE IF status_output = "" THEN Capitalize("")
                                  ELSE Capitalize(TextOf(status_output))]))

\* get_wifi_info.  o1, o2, o3: the adapter, its status and the SSID.
GetWifiInfo(o1, o2, o3) ==
    LET field(o) == IF RunPowershellText(o) # "" THEN TextOf(RunPowershellText(o))
                    ELSE NotAvailable
    IN  IF ~IsWindows
        THEN Returned([adapter_name |-> NotAvailable, adapter_status |-> NotAvailable,
                       connected_ssid |-> NotAvailable])
        ELSE Caught(Returned([adapter_name |-> field(o1), adapter_status |-> field(o2),
                              connected_ssid |-> field(o3)]))

\* The categories in the order get_all_info collects them.
Categories ==
    <<"motherboard", "cpu", "ram", "disks", "gpu", "display", "tpm", "bluetooth",
      "wifi">>

\* get_all_info has collected every category and is about to return.
AllCollected == Len(Categories) + 1

\* info[name] = self.get_..._info() in get_all_info, run by the collection
\* thread: an exception of the call ends get_all_info and reaches the handler
\* of _collect_hardware_info, with all_info still {}.  outs: the outcomes the
\* queries of the category met.
Collect(n, r, outs) ==
    /\ IF outs = {"value"}
       THEN hw_faults' = hw_faults
       ELSE /\ Cardinality(hw_faults \cup {Categories[n]}) <= MaxFaults
            /\ hw_faults' = hw_faults \cup {Categories[n]}
    /\ IF r.raised
       THEN /\ hw_raised' = TRUE
            /\ info' = <<>>
            /\ hw_pc' = AllCollected
       ELSE /\ hw_raised' = hw_raised
            /\ info' = DictSet(info, Categories[n], r.value)
            /\ hw_pc' = hw_pc + 1
    /\ UNCHANGED <<hardware_collection_started, hardware_collection_running,
                   hw_pending, hw_widgets, hw_runs>>
    /\ UNCHANGED mainVars
    /\ UNCHANGED collectRest

CollectMotherboard(outs) ==
    /\ hw_pc = 1
    /\ \E o1 \in outs, o2 \in outs : Collect(1, GetMotherboardInfo(o1, o2), {o1, o2})

CollectCpu(outs) ==
    /\ hw_pc = 2
    /\ \E o1 \in outs, o2 \in outs : Collect(2, GetCpuInfo(o1, o2), {o1, o2})

CollectRam(outs) ==
    /\ hw_pc = 3
    /\ \E o \in outs : Collect(3, GetRamInfo(o), {o})

CollectDisks(outs) ==
    /\ hw_pc = 4
    /\ \E o \in outs : Collect(4, GetDiskInfo(o), {o})

CollectGpu(outs) ==
    /\ hw_pc = 5
    /\ \E o \in outs : Collect(5, GetGpuInfo(o), {o})

CollectDisplay(outs) ==
    /\ hw_pc = 6
    /\ \E o \in outs : Collect(6, GetDisplayInfo(o), {o})

CollectTpm(outs) ==
    /\ hw_pc = 7
    /\ \E o \in outs : Collect(7, GetTpmInfo(o), {o})

CollectBluetooth(outs) ==
    /\ hw_pc = 8
    /\ \E o1 \in outs, o2 \in outs : Collect(8, GetBluetoothInfo(o1, o2), {o1, o2})

CollectWifi(outs) ==
    /\ hw_pc = 9
    /\ \E o1 \in outs, o2 \in outs, o3 \in outs :
          Collect(9, GetWifiInfo(o1, o2, o3), {o1, o2, o3})

\* ------------------------------------------------------------- hardware tab

\* root.after(100, self._start_hardware_collection)
StartCollectionCb == [cb |-> "start", all_info |-> <<>>, error |-> FALSE]

\* root.after(0, lambda: self._update_hardware_info(all_info, error_occurred, ...))
UpdateCb(all_info, error) == [cb |-> "update", all_info |-> all_info, error |-> error]

\* _set_loading_state(True) and the start of the collection thread.
StartThread ==
    /\ hardware_collection_running' = TRUE
    /\ hw_widgets' = "Carregando..."
    /\ hw_pc' = 1
    /\ info' = <<>>
    /\ hw_raised' = FALSE
    /\ hw_runs' = hw_runs + 1
    /\ hw_faults' = hw_faults

\* MainWindow._start_hardware_collection, posted by __init__.
StartHardwareCollection ==
    /\ StartCollectionCb \in hw_pending
    /\ hw_pending' = hw_pending \ {StartCollectionCb}
    /\ IF ~hardware_collection_started /\ ~hardware_collection_running
       THEN /\ hardware_collection_started' = TRUE
            /\ StartThread
       ELSE UNCHANGED <<hardware_collection_started, hardware_collection_running,
                        hw_widgets, hw_pc, info, hw_raised, hw_runs, hw_faults>>
    /\ UNCHANGED mainVars
    /\ UNCHANGED collectRest

\* MainWindow._refresh_hardware_info
RefreshHardwareInfo ==
    /\ hw_runs < MaxCollections
    /\ IF ~hardware_collection_running
       THEN /\ StartThread
            /\ UNCHANGED mainVars
       ELSE /\ last_dialog' = "Coleta em Andamento"
            /\ UNCHANGED <<hardware_collection_running, hw_widgets, hw_pc, info,
                           hw_raised, hw_runs>>
            /\ UNCHANGED <<tests_running, run_tests_button, run_all_button, test_queue,
                           objs, nobj, pending, test_results, test_details, notified,
                           run_no, identification, hardware_info, output_directory,
                           files, clock, last_content>>
    /\ UNCHANGED <<hardware_collection_started, hw_pending, hw_faults>>
    /\ UNCHANGED collectRest

\* The end of MainWindow._collect_hardware_info: get_all_info has returned or
\* raised; the finally block resets the flag and posts the update of the tab.
CollectHardwareInfo ==
    /\ hw_pc = AllCollected
    /\ hardware_collection_running' = FALSE
    /\ hw_pending' = hw_pending \cup {UpdateCb(info, hw_raised)}
    /\ hw_pc' = 0
    /\ info' = <<>>
    /\ hw_raised' = FALSE
    /\ UNCHANGED <<hardware_collection_started, hw_widgets, hw_runs, hw_faults>>
    /\ UNCHANGED mainVars
    /\ UNCHANGED collectRest

\* MainWindow._update_hardware_info
UpdateHardwareInfo ==
    \E cb \in hw_pending :
       /\ cb.cb = "update"
       /\ hw_pending' = hw_pending \ {cb}
       /\ hw_widgets' = IF cb.error THEN "Erro na coleta" ELSE cb.all_info
       /\ last_dialog' = IF cb.error THEN "Erro na Coleta" ELSE last_dialog
       /\ UNCHANGED <<hardware_collection_started, hardware_collection_running, hw_pc,
                      info, hw_raised, hw_runs, hw_faults>>
       /\ UNCHANGED <<tests_running, run_tests_button, run_all_button, test_queue,
                      objs, nobj, pending, test_results, test_details, notified,
                      run_no, identification, hardware_info, output_directory,
                      files, clock, last_content>>
       /\ UNCHANGED collectRest

\* ----------------------------------------------------------- device handles

\* No webcam test has been created.
NoCam ==
    [window |-> "none", execute |-> "none", start_button |-> FALSE,
     thread |-> "none", cap |-> "none", is_capturing |-> FALSE]

\* No audio test has been created.
NoMic ==
    [window |-> "none", execute |-> "none", is_recording |-> FALSE,
     thread |-> "none", stream |-> "none"]

\* No test module is inside execute(): the orchestrator may dispatch a test.
NoneExecuting == cam.execute # "waiting" /\ mic.execute # "waiting"

\* A step on the webcam test.
SetCam(new) ==
    /\ cam' = new
    /\ UNCHANGED <<mic, mainVars, deviceRest>>

\* A step on the audio test.
SetMic(new) ==
    /\ mic' = new
    /\ UNCHANGED <<cam, mainVars, deviceRest>>

\* WebcamTest.execute up to wait_window().
CamExecute ==
    /\ cam = NoCam
    /\ NoneExecuting
    /\ SetCam([NoCam EXCEPT !.window = "open", !.execute = "waiting",
                            !.start_button = TRUE])

\* WebcamTest._start_webcam
CamStartWebcam ==
    /\ cam.window = "open"
    /\ cam.start_button
    /\ cam.thread = "none"
    /\ SetCam([cam EXCEPT !.start_button = FALSE, !.thread = "started"])

\* WebcamTest._release_webcam
ReleaseWebcam(c) == [c EXCEPT !.is_capturing = FALSE, !.cap = "none"]

\* The except block of _capture_webcam.  after_ok: window.after(...) works; when
\* it raises, the exception leaves the block before _release_webcam.
CaptureFailed(c, after_ok) ==
    IF after_ok
    THEN ReleaseWebcam([c EXCEPT !.thread = "none",
                                 !.start_button = (c.window = "open")])
    ELSE [c EXCEPT !.thread = "none"]

\* What window.after may do on the capture thread: with the window open it
\* works, with the window destroyed it works or raises.
AfterOutcomes(c) == IF c.window = "open" THEN {TRUE} ELSE BOOLEAN

\* _capture_webcam from cv2.VideoCapture(0) to the start of its loop.
\* opened: the camera could be opened.
CamCaptureOpens(opened) ==
    /\ cam.thread = "started"
    /\ \E after_ok \in AfterOutcomes(cam) :
          IF opened /\ after_ok
          THEN SetCam([cam EXCEPT !.cap = "open", !.is_capturing = TRUE,
                                  !.thread = "capturing"])
          ELSE SetCam(CaptureFailed([cam EXCEPT !.cap = IF opened THEN "open"
                                                          ELSE "closed"],
                                    after_ok))

\* _capture_webcam from its loop to its end.  ok: the loop went through without
\* an exception (five seconds are over, or is_capturing was seen false); it cannot
\* when the handle was released meanwhile.
CamCaptureEnds(ok) ==
    /\ cam.thread = "capturing"
    /\ ok => cam.cap = "open" \/ ~cam.is_capturing
    /\ \E after_ok \in AfterOutcomes(cam) :
          IF ok
          THEN SetCam(ReleaseWebcam([cam EXCEPT !.thread = "none"]))
          ELSE SetCam(CaptureFailed(cam, after_ok))

\* _complete_test, _skip_test or _on_close of the webcam test: window.destroy().
CamWindowDestroyed ==
    /\ cam.window = "open"
    /\ SetCam([cam EXCEPT !.window = "destroyed", !.start_button = FALSE])

\* wait_window() returns; the finally block of execute releases the webcam.
CamExecuteReturns ==
    /\ cam.window = "destroyed"
    /\ cam.execute = "waiting"
    /\ SetCam(ReleaseWebcam([cam EXCEPT !.execute = "returned"]))

\* AudioTest.execute up to wait_window().
MicExecute ==
    /\ mic = NoMic
    /\ NoneExecuting
    /\ SetMic([NoMic EXCEPT !.window = "open", !.execute = "waiting"])

\* _toggle_recording: _start_recording when not recording, else _stop_recording.
MicToggleRecording ==
    /\ mic.window = "open"
    /\ IF ~mic.is_recording
       THEN /\ mic.thread = "none"
            /\ SetMic([mic EXCEPT !.is_recording = TRUE, !.thread = "started"])
       ELSE SetMic([mic EXCEPT !.is_recording = FALSE])

\* _record_audio enters `with sd.InputStream(...)`.  opened: the stream could be
\* opened; if not, the except block resets is_recording.
MicStreamOpens(opened) ==
    /\ mic.thread = "started"
    /\ IF opened
       THEN SetMic([mic EXCEPT !.thread = "recording", !.stream = "open"])
       ELSE SetMic([mic EXCEPT !.thread = "none", !.is_recording = FALSE])

\* _record_audio leaves the with block: is_recording was seen false, or the ten
\* seconds are over and the _stop_recording it posts runs.
MicRecordEnds(how) ==
    /\ mic.thread = "recording"
    /\ how = "stopped" => ~mic.is_recording
    /\ how = "timeout" => mic.is_recording
    /\ SetMic([mic EXCEPT !.thread = "none", !.stream = "none",
                          !.is_recording = FALSE])

\* _complete_test, _skip_test or _on_close of the audio test: window.destroy().
MicWindowDestroyed ==
    /\ mic.window = "open"
    /\ SetMic([mic EXCEPT !.window = "destroyed"])

\* wait_window() returns; the finally block of execute removes the temporary
\* files.
MicExecuteReturns ==
    /\ mic.window = "destroyed"
    /\ mic.execute = "waiting"
    /\ SetMic([mic EXCEPT !.execute = "returned"])

\* ---------------------------------------------------------- usb measurement

\* Speeds are kept in sixths of a MB/s: the mean of one, two or three measured
\* speeds, sum(...) / len(results), is then a whole number of units.
SpeedScale == 6

\* The values of self.test_file_size_mb the measurement is run with.
TestFileSizes == {5, 100, 300}

\* What _measure_write_speed and the two read measurements return, in MB/s.
MeasuredWrites == {20, 900}

MeasuredReads == {40, 2500}

\* What _calculate_file_hash returns.
Hashes == {"h1", "h2"}

Min(a, b) == IF a < b THEN a ELSE b

Max(a, b) == IF a > b THEN a ELSE b

\* list(sorted(S))
RECURSIVE Sorted(_)
Sorted(S) ==
    IF S = {}
    THEN <<>>
    ELSE LET least == CHOOSE x \in S : \A y \in S : x <= y
         IN  <<least>> \o Sorted(S \ {least})

\* The sizes _run_advanced_test measures with, in MB.
TestSizes(test_file_size_mb) ==
    Sorted({Min(size, test_file_size_mb) : size \in {10, test_file_size_mb, 200}})

RECURSIVE SumSpeeds(_, _)
SumSpeeds(results, field) ==
    IF results = <<>>
    THEN 0
    ELSE results[1][field] + SumSpeeds(Tail(results), field)

\* sum(r[field] for r in results) / len(results)
Average(results, field) == SumSpeeds(results, field) \div Len(results)

\* A _determine_usb_type whose first band takes in 35 MB/s.
DetermineUsbTypeInclusive(speed_mbps) ==
    IF speed_mbps <= 35 * SpeedScale
    THEN "USB 2.0 (até 480 Mbps)"
    ELSE IF speed_mbps < 450 * SpeedScale
         THEN "USB 3.2 Gen 1 (5 Gbps)"
         ELSE IF speed_mbps < 1100 * SpeedScale
              THEN "USB 3.2 Gen 2 (10 Gbps)"
              ELSE IF speed_mbps < 2500 * SpeedScale
                   THEN "USB4/Thunderbolt (20 Gbps)"
                   ELSE "USB4/Thunderbolt (40 Gbps)"

\* USBTest._determine_usb_type
DetermineUsbType(speed_mbps) ==
    IF speed_mbps < 35 * SpeedScale
    THEN "USB 2.0 (até 480 Mbps)"
    ELSE IF speed_mbps < 450 * SpeedScale
         THEN "USB 3.2 Gen 1 (5 Gbps)"
         ELSE IF speed_mbps < 1100 * SpeedScale
              THEN "USB 3.2 Gen 2 (10 Gbps)"
              ELSE IF speed_mbps < 2500 * SpeedScale
                   THEN "USB4/Thunderbolt (20 Gbps)"
                   ELSE "USB4/Thunderbolt (40 Gbps)"

\* The type shown for the results so far: the higher of the two means.
UsbTypeOf(results) ==
    DetermineUsbType(Max(Average(results, "write_speed"),
                         Average(results, "read_speed")))

\* An integrity verdict that looks at the last file only.
LastIntegrity(integrity_checks) == integrity_checks[Len(integrity_checks)]

\* all(integrity_checks)
AllIntegrity(integrity_checks) ==
    \A i \in 1..Len(integrity_checks) : integrity_checks[i]

\* No measurement has been started: self.result as __init__ leaves it.
NoUsbRun ==
    [pc |-> "none", test_sizes |-> <<>>, results |-> <<>>, integrity_checks |-> <<>>,
     hashes |-> <<>>, usb_type_var |-> "",
     result |-> [success |-> FALSE, message |-> "", details |-> <<>>, error |-> "None"]]

SetUsbRun(u) ==
    /\ usb_run' = u
    /\ UNCHANGED <<mainVars, usbRest>>

\* _run_advanced_test up to its loop.
AdvancedTestBegins(test_file_size_mb) ==
    /\ usb_run.pc = "none"
    /\ SetUsbRun([usb_run EXCEPT !.pc = "loop",
                                 !.test_sizes = TestSizes(test_file_size_mb)])

\* One turn of the loop: the file of the next size is created, hashed, written
\* to the device, read back and hashed again.  hashes keeps the two hashes of
\* every file measured.
AdvancedTestSize(write_speed, read_speed, original_hash, copied_hash) ==
    /\ usb_run.pc = "loop"
    /\ Len(usb_run.results) < Len(usb_run.test_sizes)
    /\ LET integrity == (original_hash = copied_hash)
           results == Append(usb_run.results,
                             [size |-> usb_run.test_sizes[Len(usb_run.results) + 1],
                              write_speed |-> write_speed * SpeedScale,
                              read_speed |-> read_speed * SpeedScale,
                              integrity |-> integrity])
       IN  SetUsbRun([usb_run EXCEPT
              !.results = results,
              !.integrity_checks = Append(@, integrity),
              !.hashes = Append(@, [original |-> original_hash,
                                    copied |-> copied_hash]),
              !.usb_type_var = UsbTypeOf(results)])

\* After the loop: the final means, the verdict and self.result.
AdvancedTestEnds ==
    /\ usb_run.pc = "loop"
    /\ Len(usb_run.results) = Len(usb_run.test_sizes)
    /\ LET all_integrity == AllIntegrity(usb_run.integrity_checks)
       IN  SetUsbRun([usb_run EXCEPT
              !.pc = "done",
              !.usb_type_var = UsbTypeOf(usb_run.results),
              !.result = [@ EXCEPT
                 !.success = all_integrity,
                 !.message = "Teste avançado concluído",
                 !.details =
                    [write_speed |-> Average(usb_run.results, "write_speed"),
                     read_speed |-> Average(usb_run.results, "read_speed"),
                     usb_type |-> UsbTypeOf(usb_run.results),
                     integrity |-> all_integrity,
                     test_sizes |-> usb_run.test_sizes,
                     results |-> usb_run.results]]])

\* A file operation of the loop raises: the except clause.
AdvancedTestRaises ==
    /\ usb_run.pc = "loop"
    /\ Len(usb_run.results) < Len(usb_run.test_sizes)
    /\ SetUsbRun([usb_run EXCEPT
          !.pc = "failed",
          !.result = [@ EXCEPT !.success = FALSE,
                               !.message = "Erro no teste avançado",
                               !.error = "exception"]])

\* ------------------------------------------------------------ keyboard keys

\* The modifiers of the layout with two buttons each (dual_keys), of which the
\* model keeps two.
DualKeys == {"Shift", "Ctrl"}

\* The two buttons of a modifier.
Visuals(logic) == {logic \o " (Esq)", logic \o " (Dir)"}

\* Buttons of the layout with one key each, of which the model keeps three.
SingleKeys == {"A", "Space", "\\"}

\* self.key_buttons: the buttons of the layout.
KeyButtons == SingleKeys \cup UNION {Visuals(logic) : logic \in DualKeys}

\* self.visual_to_logical, as the set of its items; the backslash is mapped to
\* itself.
VisualToLogical ==
    {item \in KeyButtons \X DualKeys : item[1] \in Visuals(item[2])}
       \cup {<<"\\", "\\">>}

\* The keys pynput reports: a letter, the space bar, the backslash, the left and
\* right Shift and Ctrl keys, and a key the layout does not have.
PhysicalKeys == {"a", "space", "\\", "shift_l", "shift_r", "ctrl_l", "ctrl_r", "f13"}

\* KeyboardTest._get_key_string
GetKeyString(key) ==
    CASE key = "space" -> "Space"
      [] key \in {"shift", "shift_l", "shift_r"} -> "Shift"
      [] key \in {"ctrl", "ctrl_l", "ctrl_r"} -> "Ctrl"
      [] key = "a" -> "A"
      [] key = "f13" -> "F13"
      [] OTHER -> key

\* The button of the layout that stands for a key of the keyboard; "none" for a
\* key without a button.
SlotOf(key) ==
    CASE key = "space" -> "Space"
      [] key = "a" -> "A"
      [] key = "\\" -> "\\"
      [] key = "shift_l" -> "Shift (Esq)"
      [] key = "shift_r" -> "Shift (Dir)"
      [] key = "ctrl_l" -> "Ctrl (Esq)"
      [] key = "ctrl_r" -> "Ctrl (Dir)"
      [] OTHER -> "none"

\* The keyboard window just opened: nothing pressed, "0 de n teclas".
NoKbd == [pressed_keys |-> {}, counter |-> 0, slots |-> {}]

SetKbd(k) ==
    /\ kbd' = k
    /\ UNCHANGED <<mainVars, kbdRest>>

\* for visual, logic_key in self.visual_to_logical.items():
\*     if logic_key == logic: self.pressed_keys.add(visual)
MarkModifier(pressed_keys, logic) ==
    pressed_keys \cup {visual \in KeyButtons : <<visual, logic>> \in VisualToLogical}

\* self.visual_to_logical[key]
LogicOf(key) == CHOOSE logic \in DualKeys \cup {"\\"} : <<key, logic>> \in VisualToLogical

\* KeyboardTest._on_virtual_key_press: a click on the button key.
KbdVirtualKeyPress(key) ==
    /\ key \in KeyButtons
    /\ IF \E logic \in DualKeys \cup {"\\"} : <<key, logic>> \in VisualToLogical
       THEN LET pressed == MarkModifier(kbd.pressed_keys, LogicOf(key))
            IN  SetKbd([kbd EXCEPT !.pressed_keys = pressed,
                                   !.counter = Cardinality(pressed),
                                   !.slots = @ \cup {key}])
       ELSE IF key \notin kbd.pressed_keys
            THEN LET pressed == kbd.pressed_keys \cup {key}
                 IN  SetKbd([kbd EXCEPT !.pressed_keys = pressed,
                                        !.counter = Cardinality(pressed),
                                        !.slots = @ \cup {key}])
            ELSE SetKbd([kbd EXCEPT !.slots = @ \cup {key}])

\* A press that adds the key whether or not the layout has a button for it.
AddAnyKey(pressed_keys, key_str) == pressed_keys \cup {key_str}

\* if key_str and key_str in self.key_buttons: self.pressed_keys.add(key_str)
AddLayoutKey(pressed_keys, key_str) ==
    IF key_str \in KeyButtons THEN pressed_keys \cup {key_str} ELSE pressed_keys

\* KeyboardTest._on_key_press: the listener reports the key, and the
\* _update_counter it posts runs.
KbdOnKeyPress(key) ==
    /\ key \in PhysicalKeys
    /\ LET key_str == GetKeyString(key)
           slots == IF SlotOf(key) = "none" THEN kbd.slots
                    ELSE kbd.slots \cup {SlotOf(key)}
           pressed == IF key_str \in {"Shift", "Ctrl", "Alt", "Win"}
                      THEN MarkModifier(kbd.pressed_keys, key_str)
                      ELSE AddLayoutKey(kbd.pressed_keys, key_str)
       IN  SetKbd([kbd EXCEPT !.pressed_keys = pressed,
                              !.counter = Cardinality(pressed),
                              !.slots = slots])

\* ------------------------------------------- hardware tab, thread by thread

\* The collections the operator may start, numbered in the order of their start.
Collections == 1..MaxCollections

\* A collection thread that has not been started.
NoThread == [pc |-> "none", all_info |-> <<>>, error_occurred |-> FALSE]

\* The hardware tab after MainWindow.__init__: no thread, the start of the first
\* collection posted with root.after(100, ...), nothing posted by a thread.
NoTab ==
    [hardware_collection_started |-> FALSE, hardware_collection_running |-> FALSE,
     start_posted |-> TRUE, started |-> 0,
     threads |-> [t \in Collections |-> NoThread], after |-> <<>>,
     fields |-> [text |-> "empty", all_info |-> <<>>]]

SetTab(tb) ==
    /\ tab' = tb
    /\ UNCHANGED mainVars
    /\ UNCHANGED tabRest

\* hardware_collection_running = True, _set_loading_state(True), and the start
\* of a thread that runs _collect_hardware_info.
TabStartThread(tb) ==
    [tb EXCEPT !.hardware_collection_running = TRUE,
               !.fields = [text |-> "Carregando...", all_info |-> <<>>],
               !.started = @ + 1,
               !.threads[tb.started + 1].pc = "get_all_info"]

\* MainWindow._start_hardware_collection, posted by __init__.
TabStartHardwareCollection ==
    /\ tab.start_posted
    /\ SetTab(IF ~tab.hardware_collection_started /\ ~tab.hardware_collection_running
              THEN TabStartThread([tab EXCEPT !.start_posted = FALSE,
                                              !.hardware_collection_started = TRUE])
              ELSE [tab EXCEPT !.start_posted = FALSE])

\* MainWindow._refresh_hardware_info: a thread is started when the flag is
\* down, a warning is shown when it is up.
TabRefreshHardwareInfo ==
    IF ~tab.hardware_collection_running
    THEN /\ tab.started < MaxCollections
         /\ SetTab(TabStartThread(tab))
    ELSE /\ last_dialog' = "Coleta em Andamento"
         /\ UNCHANGED <<tests_running, run_tests_button, run_all_button, test_queue,
                        objs, nobj, pending, test_results, test_details, notified,
                        run_no, identification, hardware_info, output_directory,
                        files, clock, last_content>>
         /\ UNCHANGED auxVars

\* The try block of _collect_hardware_info on thread t: get_all_info returns the
\* snapshot of this collection, or raises and all_info stays {}.
TabGetAllInfo(t, ok) ==
    /\ tab.threads[t].pc = "get_all_info"
    /\ SetTab([tab EXCEPT !.threads[t] =
                 [pc |-> "finally", all_info |-> IF ok THEN <<t>> ELSE <<>>,
                  error_occurred |-> ~ok]])

\* The first statement of the finally block on thread t.
TabResetFlag(t) ==
    /\ tab.threads[t].pc = "finally"
    /\ SetTab([tab EXCEPT !.threads[t].pc = "after",
                          !.hardware_collection_running = FALSE])

\* The second statement of the finally block on thread t: root.after(0, ...)
\* with the thread's all_info and error_occurred; Tk runs what was posted in the
\* order of the posting.
TabPostUpdate(t) ==
    /\ tab.threads[t].pc = "after"
    /\ SetTab([tab EXCEPT !.threads[t].pc = "done",
                          !.after = Append(@, [all_info |-> tab.threads[t].all_info,
                                               error_occurred |->
                                                   tab.threads[t].error_occurred])])

\* What _update_hardware_info writes into the fields of the tab.
FieldsOf(all_info, error_occurred) ==
    [text |-> IF error_occurred THEN "Erro na coleta" ELSE "values",
     all_info |-> all_info]

\* The oldest posted _update_hardware_info runs on the UI thread.
TabUpdateHardwareInfo ==
    /\ tab.after # <<>>
    /\ SetTab([tab EXCEPT !.after = Tail(@),
                          !.fields = FieldsOf(Head(tab.after).all_info,
                                              Head(tab.after).error_occurred)])

\* ------------------------------------------------------- singleton guard

\* The processes of the application started on the machine.
Procs == 1..MaxInstances

\* A process that has not been started; exit_code is the status it ends with.
NoProc == [state |-> "none", bind_failed |-> FALSE, window |-> FALSE,
           exit_code |-> "none"]

SetProc(p, r) ==
    /\ instances' = [instances EXCEPT ![p] = r]
    /\ UNCHANGED <<mainVars, instanceRest>>

\* The operator starts the program once more.
Launch(p) ==
    /\ instances[p].state = "none"
    /\ port_owner' = port_owner
    /\ SetProc(p, [NoProc EXCEPT !.state = "main"])

\* A main() that goes on after a failed bind.
MainBindIgnored(p) ==
    /\ instances[p].state = "main"
    /\ IF port_owner = 0
       THEN /\ port_owner' = p
            /\ SetProc(p, [instances[p] EXCEPT !.state = "bound"])
       ELSE /\ port_owner' = port_owner
            /\ SetProc(p, [instances[p] EXCEPT !.state = "bound",
                                               !.bind_failed = TRUE])

\* main(), the guard: s.bind(("127.0.0.1", 12345)) takes the port when no
\* process holds it; socket.error otherwise, and sys.exit(0).
MainBind(p) ==
    /\ instances[p].state = "main"
    /\ IF port_owner = 0
       THEN /\ port_owner' = p
            /\ SetProc(p, [instances[p] EXCEPT !.state = "bound"])
       ELSE /\ port_owner' = port_owner
            /\ SetProc(p, [instances[p] EXCEPT !.state = "exited",
                                               !.bind_failed = TRUE,
                                               !.exit_code = "0"])

\* main(), the rest: tk.Tk(), MainWindow(root) and root.mainloop().
MainOpenUi(p) ==
    /\ instances[p].state = "bound"
    /\ port_owner' = port_owner
    /\ SetProc(p, [instances[p] EXCEPT !.state = "ui", !.window = TRUE])

\* The window is closed: mainloop() and main() return, the process ends and the
\* system closes its socket.
MainLoopReturns(p) ==
    /\ instances[p].state = "ui"
    /\ port_owner' = IF port_owner = p THEN 0 ELSE port_owner
    /\ SetProc(p, [instances[p] EXCEPT !.state = "exited", !.exit_code = "0"])

\* ------------------------------------------------------------ specification

\* ReportGenerator() and MainWindow.__init__
Init ==
    /\ tests_running = FALSE
    /\ run_tests_button = "normal"
    /\ run_all_button = "normal"
    /\ test_queue = <<>>
    /\ objs = [o \in ObjIds |-> NoObj]
    /\ nobj = 0
    /\ pending = {}
    /\ test_results = <<>>
    /\ test_details = <<>>
    /\ notified = 0
    /\ run_no = 0
    /\ last_dialog = "none"
    /\ identification = <<>>
    /\ hardware_info = <<>>
    /\ output_directory = "None"
    /\ files = <<>>
    /\ clock = 0
    /\ last_content = NoContent
    /\ hardware_collection_started = FALSE
    /\ hardware_collection_running = FALSE
    /\ hw_pc = 0
    /\ info = <<>>
    /\ hw_raised = FALSE
    /\ hw_pending = {StartCollectionCb}
    /\ hw_widgets = "empty"
    /\ hw_runs = 0
    /\ hw_faults = {}
    /\ cam = NoCam
    /\ mic = NoMic
    /\ usb_run = NoUsbRun
    /\ instances = [p \in Procs |-> NoProc]
    /\ port_owner = 0
    /\ kbd = NoKbd
    /\ tab = NoTab

Selections == SUBSET TestIdSet

\* The names that pass the validation of the identification fields.
ValidNames == {n \in IdNames : Strip(n) # <<>>}

\* A posted callback runs on the UI thread.
CallbackStep ==
    \/ ExecuteNextTestCallback
    \/ \E o \in ObjIds : TestCompletionCallback(o)
    \/ \E o \in ObjIds : RunnerReturns(o)

\* A handler or a thread of a test module takes a step.  oks: whether the device
\* and file operations of the webcam and audio threads and the free-space query
\* of the USB window work; hows: how a recording thread ends; entries: what the
\* operator entered in the USB window (a device selected, a valid size); spaces:
\* the free space of the device.
ModuleStep(oks, hows, entries, spaces) ==
    \/ \E o \in ObjIds, key \in {"single", "dual"}, fresh \in BOOLEAN :
          KeyboardVirtualKeyPress(o, key, fresh)
    \/ \E o \in ObjIds, key \in {"single", "dual"}, fresh \in BOOLEAN :
          KeyboardOnKeyPress(o, key, fresh)
    \/ \E o \in ObjIds : KeyboardCompleteTest(o)
    \/ \E o \in ObjIds : KeyboardSkipTest(o)
    \/ \E o \in ObjIds : KeyboardOnClose(o)
    \/ \E o \in ObjIds, selection \in entries, size_ok \in entries, space \in spaces,
          query_ok \in oks :
          UsbStartTest(o, selection, size_ok, space, query_ok)
    \/ \E o \in ObjIds, outcome \in {"all_ok", "corrupt", "exception"} :
          UsbRunAdvancedTest(o, outcome)
    \/ \E o \in ObjIds : UsbSkipTest(o)
    \/ \E o \in ObjIds : UsbCompleteTest(o)
    \/ \E o \in ObjIds : UsbOnClose(o)
    \/ \E o \in ObjIds : WebcamStartWebcam(o)
    \/ \E o \in ObjIds, ok \in oks : WebcamCaptureWebcam(o, ok)
    \/ \E o \in ObjIds, success \in BOOLEAN : WebcamConfirmWebcam(o, success)
    \/ \E o \in ObjIds : WebcamCompleteTest(o)
    \/ \E o \in ObjIds : WebcamSkipTest(o)
    \/ \E o \in ObjIds : WebcamOnClose(o)
    \/ \E o \in ObjIds, frames \in oks, save_ok \in oks :
          AudioToggleRecording(o, frames, save_ok)
    \/ \E o \in ObjIds, how \in hows, frames \in oks, save_ok \in oks :
          AudioRecordAudio(o, how, frames, save_ok)
    \/ \E o \in ObjIds : AudioPlayAudio(o)
    \/ \E o \in ObjIds, ok \in oks : AudioPlayAudioThread(o, ok)
    \/ \E o \in ObjIds, success \in BOOLEAN : AudioConfirmAudio(o, success)
    \/ \E o \in ObjIds : AudioCompleteTest(o)
    \/ \E o \in ObjIds : AudioSkipTest(o)
    \/ \E o \in ObjIds : AudioOnClose(o)

\* The test run: run requests of an operator who filled in the identification
\* fields and selected something, with devices and files that work; the USB
\* measurement ends in any of its three ways and a module may fail to initialize.
Next ==
    \/ \E tech \in ValidNames, wb \in ValidNames, selected \in Selections \ {{}} :
          RunSelectedTests(tech, wb, selected)
    \/ \E tech \in ValidNames, wb \in ValidNames : RunAllTests(tech, wb)
    \/ CallbackStep
    \/ ModuleStep({TRUE}, {"stopped", "timeout"}, {TRUE}, {"enough"})

Spec == Init /\ [][Next]_vars

\* One test module at a time: the only run is of a single test (or is refused),
\* and every device, file and entry may fail.
NextModule ==
    \/ \E tech \in IdNames, wb \in IdNames, selected \in {t \in Selections : Cardinality(t) <= 1} :
          /\ nobj = 0
          /\ RunSelectedTests(tech, wb, selected)
    \/ CallbackStep
    \/ ModuleStep(BOOLEAN, {"stopped", "timeout", "error"}, BOOLEAN,
                  {"enough", "short"})

SpecModule == Init /\ [][NextModule]_vars

\* The report generator on its own: results arrive in any order, and the
\* operator asks for reports.
NextReport ==
    \/ \E kind \in TestIdSet, how \in {"completed", "skipped"} : RecordResult(kind, how)
    \/ GenerateReportContent
    \/ \E tech \in IdNames, wb \in IdNames, dir \in SavePaths,
          hw \in HardwareSnapshots, io_ok \in BOOLEAN :
          GenerateReport(tech, wb, dir, hw, io_ok)
    \/ Tick

SpecReport == Init /\ [][NextReport]_vars

\* The collection thread inside get_all_info.
CollectorStep(outs) ==
    \/ CollectMotherboard(outs)
    \/ CollectCpu(outs)
    \/ CollectRam(outs)
    \/ CollectDisks(outs)
    \/ CollectGpu(outs)
    \/ CollectDisplay(outs)
    \/ CollectTpm(outs)
    \/ CollectBluetooth(outs)
    \/ CollectWifi(outs)

\* The collection at startup, its queries meeting every outcome.
NextCollector ==
    \/ StartHardwareCollection
    \/ CollectorStep(Outcomes)
    \/ CollectHardwareInfo
    \/ UpdateHardwareInfo

SpecCollector == Init /\ [][NextCollector]_vars

\* The hardware tab: the collection at startup, refresh requests and report
\* generation, on a machine whose queries answer.
NextCollection ==
    \/ StartHardwareCollection
    \/ RefreshHardwareInfo
    \/ CollectorStep({"value"})
    \/ CollectHardwareInfo
    \/ UpdateHardwareInfo
    \/ \E tech \in IdNames, wb \in ValidNames, dir \in SavePaths,
          hw \in HardwareSnapshots :
          GenerateReport(tech, wb, dir, hw, TRUE)

SpecCollection == Init /\ [][NextCollection]_vars

\* One USB measurement, with every size of test file, speed and pair of hashes.
NextUsb ==
    \/ \E test_file_size_mb \in TestFileSizes : AdvancedTestBegins(test_file_size_mb)
    \/ \E write_speed \in MeasuredWrites, read_speed \in MeasuredReads,
          original_hash \in Hashes, copied_hash \in Hashes :
          AdvancedTestSize(write_speed, read_speed, original_hash, copied_hash)
    \/ AdvancedTestEnds
    \/ AdvancedTestRaises

SpecUsb == Init /\ [][NextUsb]_vars

\* The hardware tab with each collection thread taking its statements one at a
\* time, between the handlers of the UI thread.
NextRefresh ==
    \/ TabStartHardwareCollection
    \/ TabRefreshHardwareInfo
    \/ \E t \in Collections, ok \in BOOLEAN : TabGetAllInfo(t, ok)
    \/ \E t \in Collections : TabResetFlag(t)
    \/ \E t \in Collections : TabPostUpdate(t)
    \/ TabUpdateHardwareInfo

SpecRefresh == Init /\ [][NextRefresh]_vars

\* The key presses of one keyboard test, on the window and on the keyboard.
NextKeyboard ==
    \/ \E key \in KeyButtons : KbdVirtualKeyPress(key)
    \/ \E key \in PhysicalKeys : KbdOnKeyPress(key)

SpecKeyboard == Init /\ [][NextKeyboard]_vars

\* The program started several times on one machine.
NextInstances ==
    \/ \E p \in Procs : Launch(p)
    \/ \E p \in Procs : MainBind(p)
    \/ \E p \in Procs : MainOpenUi(p)
    \/ \E p \in Procs : MainLoopReturns(p)

SpecInstances == Init /\ [][NextInstances]_vars

\* A webcam test and an audio test, dispatched one after the other, seen at
\* their device handles.
NextDevices ==
    \/ CamExecute
    \/ CamStartWebcam
    \/ \E opened \in BOOLEAN : CamCaptureOpens(opened)
    \/ \E ok \in BOOLEAN : CamCaptureEnds(ok)
    \/ CamWindowDestroyed
    \/ CamExecuteReturns
    \/ MicExecute
    \/ MicToggleRecording
    \/ \E opened \in BOOLEAN : MicStreamOpens(opened)
    \/ \E how \in {"stopped", "timeout"} : MicRecordEnds(how)
    \/ MicWindowDestroyed
    \/ MicExecuteReturns

SpecDevices == Init /\ [][NextDevices]_vars

\* ------------------------------------------------------------------ claims

\* The module objects created so far.
Created == 1..nobj

\* C1: at any instant at most one test module's procedure (its window, its
\* runner or one of its worker threads) is active.
C1_AtMostOneTestActive ==
    Cardinality({o \in ObjIds : Active(objs[o])}) <= 1

\* Every dispatched test has been ended by the operator (completed, skipped or
\* closed), its runner has returned and no callback is waiting.
AllDispatchedEnded ==
    /\ nobj > 0
    /\ \A o \in Created : objs[o].window = "destroyed" /\ objs[o].runner # "executing"
    /\ pending = {}

Idle ==
    /\ ~tests_running
    /\ run_tests_button = "normal"
    /\ run_all_button = "normal"

\* C2: once the operator has ended each dispatched test by completing, skipping
\* or closing it, the queue is empty and the orchestrator is idle again.
C2_QueueDrained ==
    AllDispatchedEnded => (test_queue = <<>> /\ Idle)

\* A step of one of the two run-request handlers, whatever the operator selected.
RunRequest ==
    \E tech \in ValidNames, wb \in ValidNames :
       \/ \E selected \in Selections : RunSelectedTests(tech, wb, selected)
       \/ RunAllTests(tech, wb)

\* What a rejected run request must leave alone.
RunStateUnchanged ==
    UNCHANGED <<tests_running, run_tests_button, run_all_button, test_queue, objs,
                nobj, pending, test_results, test_details, notified, run_no>>

\* C3: a run request made while tests_running is true leaves the queue, the
\* flag, the buttons, the recorded results and the module objects unchanged and
\* dispatches nothing; stated by contraposition: while tests_running is true a
\* step that changes any of them is not a step of a run-request handler.
C3_RunRequestRejectedWhileRunning ==
    [][(tests_running /\ ~RunStateUnchanged) => ~RunRequest]_vars

\* C3 witness: a run is in progress and a request has just been refused.
C3_Witness ==
    /\ tests_running
    /\ last_dialog = "Testes em Execucao"
    /\ \E o \in Created : objs[o].window = "open"

\* The completion handler of module o runs in this step.
CompletionStep(o) ==
    \/ TestCompletionCallback(o)
    \/ UsbCompleteTest(o)
    \/ UsbOnClose(o)

\* After the step the generator holds the result dict of o and its formatted
\* text under the test's name.
Recorded(o) ==
    /\ \E i \in 1..Len(test_results') :
          test_results'[i] = [name |-> TestName(objs[o].kind), value |-> o]
    /\ \E i \in 1..Len(test_details') :
          test_details'[i] = [name |-> TestName(objs[o].kind),
                              value |-> FormattedResult(objs'[o])]

\* C4: every completion records the result under the test's name in the step
\* that dispatches the next queued test (which leaves the queue); with the
\* queue empty the step returns to idle and shows the notification, and there
\* are never more notifications than runs.
C4_RecordedThenNextOrIdle ==
    /\ [][\A o \in ObjIds : CompletionStep(o) =>
             /\ Recorded(o)
             /\ IF test_queue = <<>>
                THEN /\ ~tests_running' /\ run_tests_button' = "normal"
                     /\ run_all_button' = "normal"
                     /\ notified' = notified + 1
                     /\ nobj' = nobj
                ELSE /\ test_queue' = Tail(test_queue)
                     /\ nobj' = nobj + 1
                     /\ objs'[nobj'].kind = Head(test_queue)
                     /\ notified' = notified
                     /\ tests_running' = tests_running]_vars
    /\ [](notified <= run_no /\ (~tests_running => notified = run_no))

\* C4 witness: a run of two tests or more has ended with every result recorded
\* and its one notification shown.
C4_Witness ==
    /\ ~tests_running
    /\ run_no = 1
    /\ notified = 1
    /\ Len(test_results) >= 2
    /\ last_dialog = "Testes Concluidos"

\* C5: a step that creates a module that could not be initialised shows the
\* error and posts the advance to the next queued test.
C5_InitFailureShownAndAdvanced ==
    [][\A o \in ObjIds :
          (objs[o].kind = "none" /\ objs'[o].kind # "none" /\ objs'[o].init = "failed")
             => (last_dialog' = "Erro" /\ ExecuteNextCb \in pending')]_vars

\* What entitles a module's result to success = true.
Justified(obj) ==
    CASE obj.kind = "usb" -> obj.measure = "all_ok"
      [] obj.kind = "keyboard" -> obj.result.details = "pressed_keys >= 70 of 88"
      [] obj.kind = "webcam" -> obj.result.message = "Webcam funcionou corretamente"
      [] obj.kind = "audio" -> obj.result.message = "Audio funcionou corretamente"
      [] OTHER -> FALSE

\* C6: a result handed to the orchestrator has success = true only if the USB
\* measurement passed every integrity check, the keyboard threshold was reached,
\* or the operator confirmed the webcam or the audio.
C6_SuccessOnlyIfJustified ==
    \A i \in 1..Len(test_results) :
       objs[test_results[i].value].result.success
          => Justified(objs[test_results[i].value])

\* An entry that is empty or holds only blanks.
Blank(entry) == \A i \in 1..Len(entry) : entry[i] = " "

\* A step of _generate_report with a blank technician name or workbench id.
BlankReportRequest ==
    \E tech \in IdNames, wb \in IdNames, dir \in SavePaths, hw \in HardwareSnapshots,
       io_ok \in BOOLEAN :
       /\ Blank(tech) \/ Blank(wb)
       /\ GenerateReport(tech, wb, dir, hw, io_ok)

\* C7: report generation with a blank technician name or workbench id writes no
\* file and leaves the generator's identification, hardware info and output
\* directory unchanged; by contraposition, a step that changes any of them is
\* not such a request.
C7_BlankIdentificationRejected ==
    [][(~UNCHANGED <<files, identification, hardware_info, output_directory>>)
          => ~BlankReportRequest]_vars

\* C7 witness: with results recorded, a report has been refused and nothing was
\* written or set.
C7_Witness ==
    /\ last_dialog = "Campo Obrigatorio"
    /\ test_results # <<>>
    /\ files = <<>>
    /\ identification = <<>>
    /\ output_directory = "None"

\* The first line of text equal to line.
LineNo(text, line) ==
    CHOOSE i \in 1..Len(text) :
       text[i] = line /\ \A j \in 1..(i - 1) : text[j] # line

\* The lines of the report between the title of the test results and the rule
\* above the title of the summary, without the blank lines: the detail blocks.
DetailBlocks(text) ==
    SelectSeq(SubSeq(text, LineNo(text, "RESULTADOS DOS TESTES") + 2,
                     LineNo(text, "RESUMO DOS TESTES") - 2),
              LAMBDA line : line # "")

\* The lines of the report between the title of the summary and the closing.
SummaryBlock(text) ==
    SubSeq(text, LineNo(text, "RESUMO DOS TESTES") + 2, Len(text) - 4)

\* Success / Total x 100 with two decimals, for up to four results.
RateOf(success, total) ==
    CASE success = 0 -> "0.00"
      [] success = total -> "100.00"
      [] 2 * success = total -> "50.00"
      [] total = 3 /\ success = 1 -> "33.33"
      [] total = 3 /\ success = 2 -> "66.67"
      [] total = 4 /\ success = 1 -> "25.00"
      [] total = 4 /\ success = 3 -> "75.00"
      [] OTHER -> "?"

\* The results held whose success is true.
Successes ==
    {i \in 1..Len(test_results) : objs[test_results[i].value].result.success}

\* C8: the summary of a report states the number of results held, the number of
\* those with success true, their difference and the rate with two decimals; with
\* no result it states that no test was executed.
C8_SummaryCounts ==
    last_content.calls > 0 =>
       SummaryBlock(last_content.text) =
          IF test_results = <<>>
          THEN <<"Nenhum teste foi executado">>
          ELSE <<"Total de Testes: " \o ToString(Len(test_results)),
                 "Testes com Sucesso: " \o ToString(Cardinality(Successes)),
                 "Testes com Falha: "
                     \o ToString(Len(test_results) - Cardinality(Successes)),
                 "Taxa de Sucesso: "
                     \o RateOf(Cardinality(Successes), Len(test_results)) \o "%">>

\* C8 witness: a report on two results, one a success and one a failure, reads
\* 2, 1, 1 and 50.00%.
C8_Witness ==
    /\ last_content.calls > 0
    /\ Len(test_results) = 2
    /\ Cardinality(Successes) = 1
    /\ SummaryBlock(last_content.text) =
          <<"Total de Testes: 2", "Testes com Sucesso: 1", "Testes com Falha: 1",
            "Taxa de Sucesso: 50.00%">>

\* The objects of a set in the order of their creation.
RECURSIVE InOrder(_)
InOrder(os) ==
    IF os = {} THEN <<>>
    ELSE LET first == CHOOSE o \in os : \A p \in os : o <= p
         IN  <<first>> \o InOrder(os \ {first})

\* The objects whose results the generator holds now.
Held == {test_results[i].value : i \in 1..Len(test_results)}

\* C9 as stated: the detail blocks of a report are the texts of the results
\* held, in the order in which those results were recorded.
C9_BlocksInRecordingOrder ==
    (last_content.calls > 0 /\ test_results # <<>>) =>
       DetailBlocks(last_content.text) =
          [i \in 1..Len(InOrder(Held)) |-> FormattedResult(objs[InOrder(Held)[i]])]

\* The first and the latest object recorded under the name of object o.
FirstOf(o) ==
    CHOOSE p \in Created :
       /\ objs[p].kind = objs[o].kind
       /\ \A q \in Created : objs[q].kind = objs[o].kind => p <= q

LatestOf(o) ==
    CHOOSE p \in Created :
       /\ objs[p].kind = objs[o].kind
       /\ \A q \in Created : objs[q].kind = objs[o].kind => q <= p

\* C9 amended: the detail blocks are in the order in which each test name was
\* first recorded, and each block is the text of the latest result of its name.
C9_BlocksInFirstRecordingOrder ==
    (last_content.calls > 0 /\ test_results # <<>>) =>
       DetailBlocks(last_content.text) =
          [i \in 1..Len(InOrder({FirstOf(o) : o \in Created})) |->
              FormattedResult(objs[LatestOf(InOrder({FirstOf(o) : o \in Created})[i])])]

\* C9 witness: a report made after a test was recorded, then another test, then
\* the first test again.
C9_Witness ==
    /\ last_content.calls > 0
    /\ \E a, b, c \in Created :
          /\ a < b /\ b < c
          /\ objs[a].kind = objs[c].kind
          /\ objs[a].kind # objs[b].kind

\* C10: a call of _generate_report_content that follows another, with no
\* operation on the generator in between, returns the same text and leaves the
\* generator's state unchanged.
C10_ContentDeterministic ==
    [][(last_content.calls > 0 /\ GenerateReportContent) =>
          /\ last_content'.text = last_content.text
          /\ UNCHANGED <<identification, hardware_info, output_directory,
                         test_results, test_details, objs, files>>]_vars

\* C10 witness: two calls in a row, after time has passed, on a generator that
\* holds an identification and results.
C10_Witness ==
    /\ last_content.calls = 2
    /\ clock > 0
    /\ identification # <<>>
    /\ test_results # <<>>

\* The fields get_all_info declares for a category (the lists of modules, disks
\* and video controllers aside).
DeclaredFields(category) ==
    CASE category = "motherboard" -> {"manufacturer", "model", "serial_number"}
      [] category = "cpu" -> {"brand", "model"}
      [] category = "ram" -> {"total", "slots_used"}
      [] category = "display" -> {"resolution"}
      [] category = "tpm" -> {"version", "status", "manufacturer"}
      [] category = "bluetooth" -> {"device_name", "device_status"}
      [] category = "wifi" -> {"adapter_name", "adapter_status", "connected_ssid"}
      [] OTHER -> {}

\* get_all_info of the collection thread has returned its snapshot.
SnapshotReturned == hw_pc = AllCollected /\ ~hw_raised

\* C11: every declared field of the snapshot get_all_info returns is present
\* and is neither empty nor null, whatever the outcomes of the queries.
C11_SnapshotFieldsSet ==
    SnapshotReturned =>
       \A i \in 1..Len(info) :
          \A f \in DeclaredFields(info[i].name) :
             /\ f \in DOMAIN info[i].value
             /\ info[i].value[f] \notin {"", "None"}

\* The record of a category all of whose queries answered with the value asked
\* for.
HealthyRecord(category) ==
    CASE category = "motherboard" ->
            [manufacturer |-> "v", model |-> "v", serial_number |-> "v"]
      [] category = "cpu" -> [brand |-> "Intel", model |-> "v"]
      [] category = "ram" ->
            [total |-> "8.00 GB", slots_used |-> "1",
             modules |-> <<[banklabel |-> "v", size |-> "8.00 GB", speed |-> "v MHz"]>>]
      [] category = "disks" -> <<[model |-> "v", size |-> "238.47 GB", type |-> "v"]>>
      [] category = "gpu" -> <<[model |-> "v"]>>
      [] category = "display" -> [resolution |-> "1920x1080"]
      [] category = "tpm" ->
            [version |-> "v", status |-> "Presente", manufacturer |-> "v"]
      [] category = "bluetooth" -> [device_name |-> "v", device_status |-> "Ativo"]
      [] OTHER ->
            [adapter_name |-> "v", adapter_status |-> "v", connected_ssid |-> "v"]

\* C12: get_all_info never raises, it collects the categories one after the
\* other whatever their queries meet, and the record of every category whose
\* own queries met no fault is the record it has on a machine without faults.
C12_CategoriesFaultIsolated ==
    /\ ~hw_raised
    /\ hw_pc \in 1..AllCollected =>
          /\ Len(info) = hw_pc - 1
          /\ \A i \in 1..Len(info) :
                /\ info[i].name = Categories[i]
                /\ info[i].name \in hw_faults
                      \/ info[i].value = HealthyRecord(info[i].name)

\* C12 witness: a snapshot is returned after the TPM query failed; the TPM
\* record holds placeholders and the eight other records are those of a machine
\* without faults.
C12_Witness ==
    /\ SnapshotReturned
    /\ hw_faults = {"tpm"}
    /\ Len(info) = Len(Categories)
    /\ info[7].value.status = NotAvailable
    /\ \A i \in 1..Len(info) : i # 7 => info[i].value = HealthyRecord(info[i].name)

\* An execution of get_all_info begins: the collection thread starts, or
\* _generate_report passes its checks and calls the collector.
GetAllInfoBegins ==
    \/ hw_pc = 0 /\ hw_pc' = 1
    \/ \E tech \in ValidNames, wb \in ValidNames, dir \in SavePaths,
          hw \in HardwareSnapshots : GenerateReport(tech, wb, dir, hw, TRUE)

\* C13: no execution of get_all_info begins while the collection thread is
\* inside get_all_info, and a refresh requested while
\* hardware_collection_running is true starts no thread.
C13_OneCollectionAtATime ==
    [][/\ GetAllInfoBegins => hw_pc \notin 1..Len(Categories)
       /\ (hardware_collection_running /\ RefreshHardwareInfo)
             => UNCHANGED <<hw_pc, hw_runs>>]_vars

\* C14: once execute() of a webcam or audio test has returned, no capture
\* handle and no input stream of that module is open.
C14_HandlesReleasedOnReturn ==
    /\ cam.execute = "returned" => cam.cap # "open"
    /\ mic.execute = "returned" => mic.stream # "open"

\* C15: while the keyboard test window is open, 'Concluir Teste' is enabled
\* exactly when the number of unique pressed keys is the full key count of the
\* layout.
C15_EligibleExactlyAtFullCount ==
    \A o \in Created :
       IsOpen(o, "keyboard") =>
          (objs[o].complete_button <=> PressedCount(objs[o]) = TotalKeys)

\* The files of the measurement whose two hashes differ.
Mismatched == {i \in 1..Len(usb_run.hashes) :
                  usb_run.hashes[i].original # usb_run.hashes[i].copied}

\* C16: when a USB measurement has run to its end and, for any of the sizes it
\* tested, the hash of the source file differs from the hash of the copy, the
\* integrity entry of the result's details is false, whatever the speeds measured.
C16_IntegrityFalseOnMismatch ==
    (usb_run.pc = "done" /\ Mismatched # {})
       => usb_run.result.details.integrity = FALSE

\* A finished measurement of three sizes at the highest speeds, whose first file
\* alone came back changed.
C16_Witness ==
    /\ usb_run.pc = "done"
    /\ Mismatched = {1}
    /\ Len(usb_run.hashes) = 3
    /\ \A i \in 1..3 : /\ usb_run.results[i].write_speed = 900 * SpeedScale
                       /\ usb_run.results[i].read_speed = 2500 * SpeedScale
    /\ usb_run.result.details.integrity = FALSE

\* The generation a type label of the program stands for.
Generation(usb_type) ==
    CASE usb_type = "USB 2.0 (até 480 Mbps)" -> 1
      [] usb_type = "USB 3.2 Gen 1 (5 Gbps)" -> 2
      [] usb_type = "USB 3.2 Gen 2 (10 Gbps)" -> 3
      [] usb_type = "USB4/Thunderbolt (20 Gbps)" -> 4
      [] usb_type = "USB4/Thunderbolt (40 Gbps)" -> 5
      [] OTHER -> 0

\* The bands, as intervals of MB/s.
BandOf(speed) ==
    CASE speed < 35 * SpeedScale -> 1
      [] 35 * SpeedScale <= speed /\ speed < 450 * SpeedScale -> 2
      [] 450 * SpeedScale <= speed /\ speed < 1100 * SpeedScale -> 3
      [] 1100 * SpeedScale <= speed /\ speed < 2500 * SpeedScale -> 4
      [] OTHER -> 5

\* Every speed up to MaxSpeed is classified by its band.
ClassifiedByBand ==
    \A speed \in 0..(MaxSpeed * SpeedScale) :
       Generation(DetermineUsbType(speed)) = BandOf(speed)

\* 20 MB/s is USB 2.0, 40 MB/s is Gen 1 and 900 MB/s is Gen 2.
ClassifiedExamples ==
    /\ DetermineUsbType(20 * SpeedScale) = "USB 2.0 (até 480 Mbps)"
    /\ DetermineUsbType(40 * SpeedScale) = "USB 3.2 Gen 1 (5 Gbps)"
    /\ DetermineUsbType(900 * SpeedScale) = "USB 3.2 Gen 2 (10 Gbps)"

\* The generation never falls from a speed to the next one above it, hence
\* never from a speed to any higher one.
ClassifiedMonotone ==
    \A speed \in 0..(MaxSpeed * SpeedScale) :
       Generation(DetermineUsbType(speed)) <= Generation(DetermineUsbType(speed + 1))

\* The higher of the mean write speed and the mean read speed measured so far.
HigherMean ==
    LET avg_write == Average(usb_run.results, "write_speed")
        avg_read == Average(usb_run.results, "read_speed")
    IN  IF avg_write >= avg_read THEN avg_write ELSE avg_read

\* C17: the USB type shown during and after a measurement is the band of the
\* higher of the mean read and the mean write speed: below 35 MB/s USB 2.0, from
\* 35 to below 450 Gen 1, from 450 to below 1100 Gen 2, from 1100 to below 2500
\* USB4 20 Gbps, otherwise 40 Gbps; 20 gives USB 2.0, 40 Gen 1 and 900 Gen 2;
\* and a higher speed never gives a lower generation.
C17_TypeByBandOfHigherMean ==
    /\ usb_run.results # <<>> =>
          Generation(usb_run.usb_type_var) = BandOf(HigherMean)
    /\ usb_run.pc = "done" =>
          Generation(usb_run.result.details.usb_type) = BandOf(HigherMean)
    /\ ClassifiedByBand
    /\ ClassifiedExamples
    /\ ClassifiedMonotone

\* A finished measurement classified Gen 2 by its mean read speed, the mean
\* write speed lying in the band of Gen 1.
C17_Witness ==
    /\ usb_run.pc = "done"
    /\ usb_run.result.details.usb_type = "USB 3.2 Gen 2 (10 Gbps)"
    /\ BandOf(usb_run.result.details.write_speed) = 2
    /\ BandOf(usb_run.result.details.read_speed) = 3

\* The processes that hold the port or show a window.
Holders == {p \in Procs : instances[p].state \in {"bound", "ui"}}

\* C18: of the processes started on one machine at most one at a time holds
\* 127.0.0.1:12345 and shows a window, and it is the one bound to the port; a
\* process whose bind failed has exited with code 0 and never created a window.
C18_SingleInstance ==
    /\ Cardinality(Holders) <= 1
    /\ \A p \in Holders : port_owner = p
    /\ \A p \in Procs :
          instances[p].bind_failed =>
             /\ instances[p].state = "exited"
             /\ instances[p].exit_code = "0"
             /\ ~instances[p].window

\* One process shows its window, a second one was turned away by the guard and
\* a third one ran before and was closed.
C18_Witness ==
    \E p, q, r \in Procs :
       /\ instances[p].state = "ui" /\ port_owner = p
       /\ instances[q].state = "exited" /\ instances[q].bind_failed
       /\ instances[r].state = "exited" /\ instances[r].window

\* _start_test is called in the USB window o with a device selected and a valid
\* size, the device having fewer free bytes than 2 x the test file size.
StartOnShortDevice(o, query_ok) == UsbStartTest(o, TRUE, TRUE, "short", query_ok)

\* The measurement does not start, a warning is shown, and the window and the
\* run stay as they are.
StartRefused(o) ==
    /\ objs'[o].workers = 0
    /\ objs' = objs
    /\ last_dialog' = "Espaco Insuficiente"
    /\ objs'[o].window = "open"
    /\ tests_running' /\ tests_running
    /\ UNCHANGED <<test_queue, pending, test_results>>

C21_RecordedResultNeverMutated ==
    [][\A i \in 1..Len(test_results) :
          (i <= Len(test_results') /\ test_results'[i] = test_results[i])
             => objs'[test_results[i].value].result
                   = objs[test_results[i].value].result]_vars

\* What _confirm_webcam and _confirm_audio leave in the message of the result.
ConfirmationMessages ==
    {"Webcam funcionou corretamente", "Webcam nao funcionou corretamente",
     "Audio funcionou corretamente", "Audio nao funcionou corretamente"}

\* The order of the webcam or audio test o is kept by the step from old to new.
OrderKept(old, new) ==
    /\ old.kind = "none" =>
          ~new.complete_button /\ ~new.confirm_buttons /\ ~new.play_button
    /\ (old.kind # "none" /\ ~old.complete_button /\ new.complete_button) =>
          /\ old.confirm_buttons
          /\ new.result.message \in ConfirmationMessages
    /\ (old.kind # "none" /\ ~old.confirm_buttons /\ new.confirm_buttons) =>
          /\ new.result.error = old.result.error
          /\ IF new.kind = "webcam"
             THEN old.workers > 0 /\ new.workers = 0
             ELSE old.is_playing /\ ~new.is_playing
    /\ (~old.is_playing /\ new.is_playing) => old.play_button
    /\ (old.kind # "none" /\ ~old.play_button /\ new.play_button) =>
          \/ old.is_recording /\ ~new.is_recording
          \/ old.is_playing /\ ~new.is_playing

\* C22: in the webcam and audio tests 'Concluir Teste' is disabled from the
\* start and is enabled only by the operator's yes or no; the yes and no buttons
\* become available only when the capture thread ends without error (webcam) or
\* a playback ends without error (audio); a playback starts only from the play
\* button, which a saved recording enables.
C22_CompletionOnlyAfterConfirmation ==
    [][\A o \in ObjIds :
          objs'[o].kind \in {"webcam", "audio"} => OrderKept(objs[o], objs'[o])]_vars

\* An audio test recorded, played back and confirmed, its window still open.
C22_Witness ==
    \E o \in Created :
       /\ IsOpen(o, "audio")
       /\ objs[o].complete_button
       /\ objs[o].confirm_buttons
       /\ objs[o].result.message \in ConfirmationMessages

\* C23: no exception leaves a thread of a test module unhandled, whether or
\* not the window of the test has been closed meanwhile.
C23_NothingEscapesAThread ==
    \A o \in ObjIds : ~objs[o].escaped

\* The collection thread takes a step: it is inside _collect_hardware_info and
\* moves on.
CollectionThreadStep == hw_pc # 0 /\ hw_pc' # hw_pc

\* C24: the state bound to the UI (hardware_collection_running, tests_running,
\* the test queue and what the hardware tab shows) is changed by the UI thread
\* only: a step of the collection thread changes none of it and does no more
\* than post a callback.
C24_UiStateChangedByUiThreadOnly ==
    [][CollectionThreadStep =>
          UNCHANGED <<hardware_collection_running, hardware_collection_started,
                      tests_running, test_queue, hw_widgets>>]_vars

\* A press of a key already pressed leaves the pressed set and the count alone,
\* and no press makes the count fall.
RepeatedPressIdle ==
    /\ \A key \in KeyButtons :
          (key \in kbd.slots /\ KbdVirtualKeyPress(key)) =>
             (kbd'.pressed_keys = kbd.pressed_keys /\ kbd'.counter = kbd.counter)
    /\ \A key \in PhysicalKeys :
          (SlotOf(key) \in kbd.slots /\ KbdOnKeyPress(key)) =>
             (kbd'.pressed_keys = kbd.pressed_keys /\ kbd'.counter = kbd.counter)
    /\ kbd'.counter >= kbd.counter

\* C25 as stated: the pressed-key count is the number of distinct buttons of
\* the layout the operator has pressed, on the keyboard or on the window; the
\* pressed set is within the layout; a repeated press changes neither the set nor
\* the count; the count never falls.
C25_CountIsSlotsPressed ==
    /\ [](/\ kbd.counter = Cardinality(kbd.slots)
          /\ kbd.pressed_keys \subseteq KeyButtons)
    /\ [][RepeatedPressIdle]_vars

\* The buttons marked by the presses of slots: a pressed button, and with a
\* button of a modifier the other button of that modifier.
MarkedBy(slots) ==
    slots \cup {visual \in KeyButtons :
                   \E logic \in DualKeys, slot \in slots :
                      visual \in Visuals(logic) /\ slot \in Visuals(logic)}

\* C25: the pressed set is the set of buttons marked by the presses so far, a
\* press of a modifier marking both buttons of that modifier, and the count is
\* its size; the pressed set is within the layout; a repeated press changes
\* neither the set nor the count; the count never falls.
C25_CountIsSlotsMarked ==
    /\ [](/\ kbd.pressed_keys = MarkedBy(kbd.slots)
          /\ kbd.counter = Cardinality(MarkedBy(kbd.slots))
          /\ kbd.pressed_keys \subseteq KeyButtons)
    /\ [][RepeatedPressIdle]_vars

\* The left Shift and the letter were pressed, and three buttons count.
C25_Witness ==
    /\ kbd.slots = {"Shift (Esq)", "A"}
    /\ kbd.counter = 3

\* The report generator holds the result of module o: _handle_test_completion
\* has been called for it.
CompletionCalled(o) == \E i \in 1..Len(test_results) : test_results[i].value = o

\* The test of module o is over: the operator has ended its window, its runner
\* thread is not in execute() and no completion callback of it waits.
TestEnded(o) ==
    /\ objs[o].kind # "none"
    /\ objs[o].init # "failed"
    /\ objs[o].window = "destroyed"
    /\ objs[o].runner # "executing"
    /\ CompletionCb(o) \notin pending

\* C26: every test dispatched with a module that came to exist leads to exactly
\* one call of _handle_test_completion, however the operator ends it: once the
\* test is over the call has been made, and the handler never runs for a module
\* it has already run for.
C26_ExactlyOneCompletion ==
    /\ [](\A o \in Created : TestEnded(o) => CompletionCalled(o))
    /\ [][\A o \in ObjIds : CompletionStep(o) => ~CompletionCalled(o)]_vars

\* The flag, the queue and the two run buttons agree.
RunStateConsistent ==
    /\ ~tests_running =>
          /\ test_queue = <<>>
          /\ run_tests_button = "normal"
          /\ run_all_button = "normal"
    /\ tests_running =>
          /\ run_tests_button = "disabled"
          /\ run_all_button = "disabled"

\* C27: tests_running false implies an empty queue and both run buttons
\* enabled, tests_running true implies both run buttons disabled; the queue
\* grows only in the step of an accepted run request; and tests_running falls
\* only in a step of _execute_next_test that finds the queue empty.
C27_RunStateConsistent ==
    /\ []RunStateConsistent
    /\ [][/\ Len(test_queue') > Len(test_queue) =>
                (~tests_running /\ tests_running' /\ run_no' = run_no + 1)
          /\ (tests_running /\ ~tests_running') =>
                (test_queue = <<>> /\ test_queue' = <<>> /\ notified' = notified + 1)
         ]_vars

\* A run of two tests or more has come to its end and the orchestrator is idle.
C27_Witness ==
    /\ ~tests_running
    /\ notified = 1
    /\ nobj >= 2
    /\ test_queue = <<>>

\* The place of a test id in the fixed order of self.selected_tests.
PlaceOf(test_id) == CHOOSE i \in 1..Len(TestIds) : TestIds[i] = test_id

\* The ids of a sequence follow the fixed order, none of them twice.
InFixedOrder(ids) ==
    \A i \in 1..Len(ids), j \in 1..Len(ids) : i < j => PlaceOf(ids[i]) < PlaceOf(ids[j])

\* The test has been completed, skipped or closed by the operator and its runner
\* has returned, or it failed to initialise.
Ended(obj) ==
    \/ obj.init = "failed"
    \/ obj.window = "destroyed" /\ obj.runner # "executing"

\* What a run has to run after the step: the test just dispatched and the queue.
RunPlan == <<objs'[nobj'].kind>> \o test_queue'

\* C28: an accepted run request dispatches the first requested test and leaves
\* the others queued, in the order keyboard, usb, webcam, audio and each once;
\* every later dispatch takes the head of the queue, and no other step touches
\* the queue; and a step dispatches only when every test dispatched before it
\* has been completed, skipped or closed, or failed to initialise.
C28_DispatchedInOrderOneAtATime ==
    [][/\ run_no' # run_no =>
             /\ nobj' = nobj + 1
             /\ InFixedOrder(RunPlan)
             /\ \A selected \in Selections :
                   (\E tech \in ValidNames, wb \in ValidNames :
                       RunSelectedTests(tech, wb, selected))
                   => {RunPlan[i] : i \in 1..Len(RunPlan)} = selected
             /\ (\E tech \in ValidNames, wb \in ValidNames : RunAllTests(tech, wb))
                   => RunPlan = TestIds
       /\ (run_no' = run_no /\ nobj' # nobj) =>
             /\ nobj' = nobj + 1
             /\ test_queue # <<>>
             /\ objs'[nobj'].kind = Head(test_queue)
             /\ test_queue' = Tail(test_queue)
             /\ \A o \in Created : Ended(objs'[o])
       /\ (run_no' = run_no /\ nobj' = nobj) => test_queue' = test_queue
      ]_vars

\* Keyboard, webcam and audio were requested and have been dispatched in that
\* order, the first two ended before the third began.
C28_Witness ==
    /\ nobj = 3
    /\ objs[1].kind = "keyboard"
    /\ objs[2].kind = "webcam"
    /\ objs[3].kind = "audio"
    /\ Ended(objs[1]) /\ Ended(objs[2])
    /\ objs[3].window = "open"

\* No collection is in progress and every posted update has run.
TabSettled ==
    /\ tab.started > 0
    /\ ~tab.hardware_collection_running
    /\ \A t \in Collections : tab.threads[t].pc \in {"none", "done"}
    /\ tab.after = <<>>

\* What the most recently started collection brought back.
LatestFields ==
    FieldsOf(tab.threads[tab.started].all_info, tab.threads[tab.started].error_occurred)

\* C29: once no collection is in progress and all posted updates have run, the
\* fields of the hardware tab show what the most recently started collection
\* brought back.
C29_LatestSnapshotShown ==
    TabSettled => tab.fields = LatestFields

\* C30: at most one thread of an audio test is inside _record_audio, where it
\* holds the input stream it opened on entry and its callback appends to
\* recorded_frames, whatever the operator toggles and whenever the thread
\* looks at is_recording.
C30_OneRecordingWorker ==
    \A o \in ObjIds : objs[o].kind = "audio" => objs[o].workers <= 1

====
